---------------------------- MODULE Spec2Model ----------------------------
(***************************************************************************)
(* Model of the Logger: the normalization of a payload (src/Retriever and  *)
(* src/Server: conversion, rentability, wallet valuation, wallet id) and   *)
(* the client (src/Client/app.py): the ingestion cycle of                  *)
(* main (fetch, buffer, export) and the two compaction stages              *)
(* compact_csv_files and very_compact_csv_files working on the files of    *)
(* the data directory.                                                     *)
(*                                                                         *)
(* A record is a positive integer (its identity).  A row of a CSV file is  *)
(* a function from the file's header columns to cell values; the empty     *)
(* cell (None / '' in the code) is Empty.  A file name is a record         *)
(* [kind, prefix, run, n, n2] standing for the strings                     *)
(*    export    {prefix}_{run}_{n}.csv                                     *)
(*    combined  {prefix}_{run}_{n}-{n2}_combined.csv                       *)
(*    compact   {prefix}_{run}_compact.csv          (n = 0)                *)
(*              {prefix}_{run}_{n}_compact.csv      (n >= 1)               *)
(* and an archive name is [run, n] for archive_{run}.zip (n = 0) or        *)
(* archive_{run}_{n}.zip (n >= 1).                                         *)
(*                                                                         *)
(* The specifications: Spec and SpecCrash (main), SpecCompact and          *)
(* SpecCompactCrash (the compaction functions under a direct caller),      *)
(* SpecNorm (the functions of the normalization), SpecFlat (flatten_json   *)
(* and the export format on nested records), SpecRetriever and SpecServer  *)
(* (the request handlers and the MongoDB collections of the two services), *)
(* SpecExport (the database exporter of src/Compacter beside the handlers  *)
(* of the Retriever).                                                      *)
(***************************************************************************)
EXTENDS Integers, Sequences, FiniteSets, TLC

(* ------------------------------ bounds -------------------------------- *)
MaxFiles == 23      \* most files of one stage present when a call sequence starts
MaxCalls == 2       \* direct calls of a compaction function in one behaviour
MaxCrashes == 1     \* process crashes in one behaviour
MaxRuns == 2        \* starts of main in one behaviour
MaxTotal == 4       \* trade records handed out in a behaviour without crashes
MaxCrashTotal == 2  \* trade records handed out in a behaviour with crashes
MaxFetchW == 1      \* most wallet records one GET returns
MaxLoop == 2        \* most export files one loop of main writes in a cycle
MaxRateK == 8       \* rates of a price table: 0, 1/4, ..., MaxRateK / 4
MaxCallK == 8       \* amounts passed to the normalization: multiples of CallStride
MaxSweepK == 600    \* amounts swept for the round trip: multiples of SweepStride
MaxEntries == 2     \* most entries of the wallet of one payload
MaxStamp == 2       \* timestamps of a normalization: 1..MaxStamp
MaxWalletRateK == 1 \* rates of the price table of a wallet: multiples of 9/8
MaxNodes == 4       \* nodes of a nested record handed to flatten_json
MaxBatch == 2       \* records of a batch handed to the export
MaxPosted == 2      \* elements posted in one behaviour (a request counts at least 1)
MaxExportPosted == 3    \* elements posted in one behaviour beside the exporter
MaxExports == 2     \* starts of the database exporter in one behaviour

(* ------------------------- program constants -------------------------- *)
Group == 10         \* num = 10, files merged per step
max_records_init == 2   \* export threshold (10000 in main, scaled down)
export_limit == 2   \* export_limit of export_data (10, scaled down)

Empty == 0          \* the empty cell
Prefixes == {"trades", "wallets"}

(* ------------------------------ helpers ------------------------------- *)
Range(s) == {s[i] : i \in 1..Len(s)}

Drop(s, k) == SubSeq(s, k + 1, Len(s))

Take(s, k) == SubSeq(s, 1, IF k < Len(s) THEN k ELSE Len(s))

\* columns of the flattened record r: records do not all have the same leaves
ColsOf(r) == IF r % 3 = 0 THEN {"a", "b"} ELSE {"a"}

\* flatten_json: the flat mapping of record r (every leaf carries r's identity)
flatten_json(r) == [c \in ColsOf(r) |-> r]

\* the non-empty cells of a row: what the row says, whatever the header is
RowData(row) == [c \in {d \in DOMAIN row : row[d] # Empty} |-> row[c]]

\* csv.DictWriter.writerow: one cell per header column, '' where absent
WriteRow(flat, fieldnames) ==
    [c \in fieldnames |-> IF c \in DOMAIN flat THEN flat[c] ELSE Empty]

RECURSIVE MapRows(_, _)
MapRows(rows, fieldnames) ==
    IF rows = <<>> THEN <<>>
    ELSE <<WriteRow(Head(rows), fieldnames)>> \o MapRows(Tail(rows), fieldnames)

\* variant: the rows are written last record first
Convert_reversed(batch) ==
    LET flat == [i \in 1..Len(batch) |-> flatten_json(batch[Len(batch) + 1 - i])]
        fieldnames == UNION {DOMAIN flat[i] : i \in 1..Len(batch)}
    IN  [header |-> fieldnames, rows |-> MapRows(flat, fieldnames)]

\* CSVConverter.convert: the file written for a batch of records
Convert(batch) ==
    LET flat == [i \in 1..Len(batch) |-> flatten_json(batch[i])]
        fieldnames == UNION {DOMAIN flat[i] : i \in 1..Len(batch)}
    IN  [header |-> fieldnames, rows |-> MapRows(flat, fieldnames)]

\* the records of a file's rows, in row order
RecordsIn(file) ==
    [i \in 1..Len(file.rows) |->
        CHOOSE v \in {file.rows[i][c] : c \in DOMAIN file.rows[i]} : v # Empty]

(* ----------------------------- file names ----------------------------- *)
ExportName(prefix, run, n) ==
    [kind |-> "export", prefix |-> prefix, run |-> run, n |-> n, n2 |-> 0]

CombinedName(prefix, run, n, n2) ==
    [kind |-> "combined", prefix |-> prefix, run |-> run, n |-> n, n2 |-> n2]

CompactName(prefix, run, n) ==
    [kind |-> "compact", prefix |-> prefix, run |-> run, n |-> n, n2 |-> 0]

ZipName(run, n) == [run |-> run, n |-> n]

\* str(n): the decimal digits of n as character codes
RECURSIVE Digits(_)
Digits(n) == IF n < 10 THEN <<48 + n>> ELSE Digits(n \div 10) \o <<48 + (n % 10)>>

\* the part of the path after the prefix, as character codes; the run id is
\* a fixed-width date string, so it compares like the number that stands for it
PathKey(f) ==
    CASE f.kind = "export"   -> <<f.run, 95>> \o Digits(f.n) \o <<46>>
      [] f.kind = "combined" -> <<f.run, 95>> \o Digits(f.n) \o <<45>> \o Digits(f.n2) \o <<95>>
      [] OTHER               -> <<f.run, 95>> \o (IF f.n = 0 THEN <<>> ELSE Digits(f.n) \o <<95>>) \o <<99>>

\* string comparison s < t
RECURSIVE LexLess(_, _)
LexLess(s, t) ==
    IF t = <<>> THEN FALSE
    ELSE IF s = <<>> THEN TRUE
    ELSE IF Head(s) # Head(t) THEN Head(s) < Head(t)
    ELSE LexLess(Tail(s), Tail(t))

PathLess(f, g) ==
    IF f.prefix # g.prefix THEN f.prefix = "trades"
    ELSE LexLess(PathKey(f), PathKey(g))

\* sorted(...) of a set of paths
RECURSIVE Sorted(_)
Sorted(S) ==
    IF S = {} THEN <<>>
    ELSE LET lo == CHOOSE f \in S : \A g \in S \ {f} : PathLess(f, g)
         IN  <<lo>> \o Sorted(S \ {lo})


(* ------------------------------- state -------------------------------- *)
VARIABLES
    disk,       \* the CSV files of the data directory: name -> [header, rows]
    zips,       \* the archives of the data directory: name -> sequence of entries
    buffer,     \* the JSON buffer files: stream -> sequence of records (absent = no file)
    clock,      \* the wall clock in seconds, read for date_id
    nextId,     \* identity of the next record the server hands out
    m,          \* the locals and position of main
    cs,         \* the call stack of compact_csv_files / very_compact_csv_files frames
    env,        \* the direct caller's counters: calls made, crashes so far
    db,         \* the MongoDB collections 'trades' and 'wallets' of json_db
    reqs        \* the HTTP requests so far, each with its handler's position

vars == <<disk, zips, buffer, clock, nextId, m, cs, env, db, reqs>>

\* the database before any insertion, and no request
NoDb == [trades |-> <<>>, wallets |-> <<>>]
NoStore == db = NoDb /\ reqs = <<>>

Top == cs[Len(cs)]

SetTop(fr) == [cs EXCEPT ![Len(cs)] = fr]

\* "combined" in str(f) / "compact" in str(f)
HasCombined(f) == f.kind = "combined"

HasCompact(f) == f.kind = "compact"

\* variant: compact_csv_files also takes the files marked 'combined'
Eligible_combined_again(fn, prefix, f) ==
    /\ f.prefix = prefix
    /\ IF fn = "compact" THEN ~HasCompact(f)
                         ELSE HasCombined(f) /\ ~HasCompact(f)

\* Path(directory).glob(f'{prefix}*.csv') with the filter of each function
Eligible(fn, prefix, f) ==
    /\ f.prefix = prefix
    /\ IF fn = "compact" THEN ~HasCombined(f) /\ ~HasCompact(f)
                         ELSE HasCombined(f) /\ ~HasCompact(f)

EligibleOnDisk(fn, prefix) == {f \in DOMAIN disk : Eligible(fn, prefix, f)}

\* variant: every call drains (the size follows the number of files found)
GroupSize_always_drain(keep_going, k) ==
    IF k < 1 THEN 1 ELSE IF k > Group THEN Group ELSE k

\* variant: no call drains (keep_going == 'force' is not looked at)
GroupSize_never_drain(keep_going, k) == Group

\* lines 136-142 / 178-184: the size of a group
GroupSize(keep_going, k) ==
    LET num0 == IF keep_going = "force" THEN k ELSE Group
        num1 == IF num0 < 1 THEN 1 ELSE num0
    IN  IF num1 > Group THEN Group ELSE num1

\* the frame of a call at its first loop test; grp is csv_files[:num] of the
\* running merge step; k0, merges, start and before record what the call
\* found and did (files found, merge steps begun, their contents, the
\* directory when the running merge step began), for stating its contract
NewFrame(fn, prefix, date_id, keep_going, n) ==
    LET files == Sorted(EligibleOnDisk(fn, prefix))
    IN  [fn |-> fn, prefix |-> prefix, date_id |-> date_id,
         keep_going |-> keep_going, n |-> n,
         csv_files |-> files,
         num |-> GroupSize(keep_going, Len(files)),
         combined |-> FALSE, n2 |-> 0,
         pc |-> "loop", i |-> 0, fieldnames |-> {}, grp |-> <<>>,
         out |-> CompactName(prefix, date_id, 0), zip |-> ZipName(date_id, 0),
         k0 |-> Len(files), merges |-> 0,
         start |-> [f \in Range(files) |-> disk[f]],
         before |-> disk]

\* variant: a row lacking a column of the union is written without its values
AllFields_blank(row, fieldnames) ==
    [c \in fieldnames |-> IF DOMAIN row = fieldnames THEN row[c] ELSE Empty]

\* row_with_all_fields = {field: row.get(field, None) for field in fieldnames}
AllFields(row, fieldnames) ==
    [c \in fieldnames |-> IF c \in DOMAIN row THEN row[c] ELSE Empty]

RECURSIVE AllFieldsRows(_, _)
AllFieldsRows(rows, fieldnames) ==
    IF rows = <<>> THEN <<>>
    ELSE <<AllFields(Head(rows), fieldnames)>> \o AllFieldsRows(Tail(rows), fieldnames)

\* a function with one more (or one replaced) mapping
Put(f, k, v) == [x \in DOMAIN f \cup {k} |-> IF x = k THEN v ELSE f[x]]

Remove(f, k) == [x \in DOMAIN f \ {k} |-> f[x]]

(* ---------------- compact_csv_files / very_compact_csv_files ---------- *)
\* while len(csv_files) >= num: ... up to the choice of the output name
LoopStep ==
    /\ cs # <<>> /\ Top.pc = "loop"
    /\ IF Len(Top.csv_files) >= Top.num
       THEN LET grp == SubSeq(Top.csv_files, 1, Top.num)
                fns == UNION {disk[grp[j]].header : j \in 1..Len(grp)}
            IN  IF Top.fn = "compact"
                THEN cs' = SetTop([Top EXCEPT !.combined = TRUE, !.fieldnames = fns, !.grp = grp,
                                     !.out = CombinedName(Top.prefix, Top.date_id, Top.n, Top.n2),
                                     !.n2 = Top.n2 + 1, !.pc = "open"])
                ELSE cs' = SetTop([Top EXCEPT !.combined = TRUE, !.fieldnames = fns, !.grp = grp,
                                     !.n = 0,
                                     !.out = CompactName(Top.prefix, Top.date_id, 0),
                                     !.zip = ZipName(Top.date_id, 0),
                                     !.pc = "probe"])
       ELSE cs' = SetTop([Top EXCEPT !.pc = "tail"])
    /\ UNCHANGED <<db, reqs, disk, zips, buffer, clock, nextId, m, env>>

\* while (exists(combined_csv) or exists(zip_path)) and keep_going != 'force'
ProbeStep ==
    /\ cs # <<>> /\ Top.pc = "probe"
    /\ IF (Top.out \in DOMAIN disk \/ Top.zip \in DOMAIN zips) /\ Top.keep_going # "force"
       THEN cs' = SetTop([Top EXCEPT !.n = Top.n + 1,
                            !.out = CompactName(Top.prefix, Top.date_id, Top.n + 1),
                            !.zip = ZipName(Top.date_id, Top.n + 1)])
       ELSE cs' = SetTop([Top EXCEPT !.pc = "open"])
    /\ UNCHANGED <<db, reqs, disk, zips, buffer, clock, nextId, m, env>>

\* with open(combined_csv, 'w') ...: writer.writeheader()
OpenStep ==
    /\ cs # <<>> /\ Top.pc = "open"
    /\ disk' = Put(disk, Top.out, [header |-> Top.fieldnames, rows |-> <<>>])
    /\ cs' = SetTop([Top EXCEPT !.pc = "merge", !.i = 1, !.merges = Top.merges + 1,
                       !.before = disk])
    /\ UNCHANGED <<db, reqs, zips, buffer, clock, nextId, m, env>>

\* one input file of the group: copy its rows, then file.unlink()
MergeStep ==
    /\ cs # <<>> /\ Top.pc = "merge"
    /\ LET f == Top.grp[Top.i]
           new == AllFieldsRows(disk[f].rows, Top.fieldnames)
           d1 == [disk EXCEPT ![Top.out].rows = @ \o new]
       IN  /\ f \in DOMAIN disk
           /\ disk' = Remove(d1, f)
           /\ IF Top.i < Top.num
              THEN cs' = SetTop([Top EXCEPT !.i = Top.i + 1])
              ELSE cs' = SetTop([Top EXCEPT !.i = 0,
                                   !.csv_files = Drop(Top.csv_files, Top.num),
                                   !.pc = IF Top.fn = "compact" THEN "loop" ELSE "zip"])
    /\ UNCHANGED <<db, reqs, zips, buffer, clock, nextId, m, env>>

\* mode = 'a' if exists(zip_path) else 'w'; zipf.write(combined_csv, arcname)
ZipStep ==
    /\ cs # <<>> /\ Top.pc = "zip"
    /\ LET entry == [arcname |-> Top.out, content |-> disk[Top.out]]
       IN  zips' = IF Top.zip \in DOMAIN zips
                   THEN [zips EXCEPT ![Top.zip] = @ \o <<entry>>]
                   ELSE Put(zips, Top.zip, <<entry>>)
    /\ cs' = SetTop([Top EXCEPT !.pc = "remove"])
    /\ UNCHANGED <<db, reqs, disk, buffer, clock, nextId, m, env>>

\* variant: the plaintext merged file is left behind
RemoveStep_keep ==
    /\ cs # <<>> /\ Top.pc = "remove"
    /\ cs' = SetTop([Top EXCEPT !.pc = "loop"])
    /\ UNCHANGED <<db, reqs, disk, zips, buffer, clock, nextId, m, env>>

\* os.remove(combined_csv)
RemoveStep ==
    /\ cs # <<>> /\ Top.pc = "remove"
    /\ disk' = Remove(disk, Top.out)
    /\ cs' = SetTop([Top EXCEPT !.pc = "loop"])
    /\ UNCHANGED <<db, reqs, zips, buffer, clock, nextId, m, env>>

\* if keep_going != '' and keep_going != 'force' and combined is True: recurse
TailStep ==
    /\ cs # <<>> /\ Top.pc = "tail"
    /\ IF Top.keep_going # "" /\ Top.keep_going # "force" /\ Top.combined
       THEN cs' = Append(SetTop([Top EXCEPT !.pc = "wait"]),
                         NewFrame(Top.fn, Top.keep_going, Top.date_id, "force", Top.n))
       ELSE cs' = SetTop([Top EXCEPT !.pc = "done"])
    /\ UNCHANGED <<db, reqs, disk, zips, buffer, clock, nextId, m, env>>

\* return of a call: the frame is popped, a waiting caller frame has finished too
ReturnStep ==
    /\ cs # <<>> /\ Top.pc = "done"
    /\ LET rest == SubSeq(cs, 1, Len(cs) - 1)
       IN  cs' = IF rest = <<>> THEN <<>>
                 ELSE [rest EXCEPT ![Len(rest)].pc = "done"]
    /\ UNCHANGED <<db, reqs, disk, zips, buffer, clock, nextId, m, env>>

CompactionStep ==
    \/ LoopStep
    \/ ProbeStep
    \/ OpenStep
    \/ MergeStep
    \/ ZipStep
    \/ RemoveStep
    \/ TailStep
    \/ ReturnStep

(* -------- the compaction functions under a direct caller (SpecCompact) -- *)
\* the records of the j-th export batch of an earlier run
Batch(j) == [i \in 1..max_records_init |-> (j - 1) * max_records_init + i]

\* k files of one stage ("export" or "combined") left by run 0, per prefix
Backlog(kind, prefix, k, base) ==
    [f \in {(IF kind = "export" THEN ExportName(prefix, 0, j - 1)
                                ELSE CombinedName(prefix, 0, j - 1, 0)) : j \in 1..k}
       |-> Convert(Batch(base + f.n + 1))]

Merge2(f, g) == [x \in DOMAIN f \cup DOMAIN g |-> IF x \in DOMAIN f THEN f[x] ELSE g[x]]

WalletBacklog == 3

NoMain == [pc |-> "none"]

\* runs, trades, calls and crashes count the starts of main, the trade
\* records handed out, the direct calls and the crashes; crashAt, crashLoaded
\* and redo remember the last crash of main: whether it struck between the
\* write of an export file and the save of the buffer, what the cycle had
\* loaded, and which records were both exported by a crashed cycle and still
\* in the persisted buffer
NoEnv == [runs |-> 0, trades |-> 0, calls |-> 0, crashes |-> 0,
          crashAt |-> "", crashLoaded |-> <<>>, redo |-> {}]

InitCompact ==
    /\ \E kind \in {"export", "combined"}, k \in 0..MaxFiles :
         disk = Merge2(Backlog(kind, "trades", k, 0),
                       Backlog(kind, "wallets", WalletBacklog, MaxFiles + 1))
    /\ zips = << >>
    /\ buffer = << >>
    /\ clock = 1
    /\ nextId = 1
    /\ m = NoMain
    /\ cs = <<>>
    /\ env = NoEnv
    /\ NoStore

\* a caller invokes compact_csv_files or very_compact_csv_files on 'trades'
\* under the run id of the present second
Call(fn, keep_going, n) ==
    /\ m.pc = "none" /\ cs = <<>>
    /\ env.calls < MaxCalls
    /\ cs' = <<NewFrame(fn, "trades", clock, keep_going, n)>>
    /\ env' = [env EXCEPT !.calls = @ + 1]
    /\ UNCHANGED <<db, reqs, disk, zips, buffer, clock, nextId, m>>

\* the directory after the process has died: the closed files stay as they
\* are; of the merged file that is open for writing (lines 155-165, 205-213:
\* the inputs are unlinked inside the with block) only the part already
\* flushed is in the file, the header and some of the rows written so far
CrashedDisk ==
    IF cs # <<>> /\ Top.pc = "merge"
    THEN {[disk EXCEPT ![Top.out].rows = Take(@, k)] :
            k \in 0..Len(disk[Top.out].rows)}
    ELSE {disk}

\* the process dies in the middle of a call
CrashCompact ==
    /\ m.pc = "none" /\ cs # <<>>
    /\ env.crashes < MaxCrashes
    /\ cs' = <<>>
    /\ \E d \in CrashedDisk : disk' = d
    /\ env' = [env EXCEPT !.crashes = @ + 1]
    /\ UNCHANGED <<db, reqs, zips, buffer, clock, nextId, m>>

\* the caller numbers its batches from 0 and may pass a number again
NextCompact ==
    \/ \E fn \in {"compact", "very"}, keep_going \in {"", "force", "wallets"},
          n \in 0..env.calls : Call(fn, keep_going, n)
    \/ CompactionStep

SpecCompact == InitCompact /\ [][NextCompact]_vars

NextCompactCrash ==
    \/ NextCompact
    \/ CrashCompact

SpecCompactCrash == InitCompact /\ [][NextCompactCrash]_vars


(* -------------------------------- main -------------------------------- *)
\* what a buffer file holds when save_data has truncated it (open(.., 'w'))
\* and the process died before json.dump and the close had written the whole
\* text: a proper prefix of a JSON list, which is no JSON document (records
\* are positive, so this is no sequence of records)
Torn == <<Empty>>

\* json.load succeeds on the file of the stream, or there is no file
Readable(stream) == stream \in DOMAIN buffer => buffer[stream] # Torn

\* JSONFileManager.load_data: [] when the file does not exist
load_data(stream) == IF stream \in DOMAIN buffer THEN buffer[stream] ELSE <<>>

\* JSONFileManager.save_data
save_data(stream, data) == Put(buffer, stream, data)

Idle == [pc |-> "idle"]

\* the first record identity not used by the files of earlier runs
FirstId == 2 * Group * max_records_init + 1

Fresh(k) == [i \in 1..k |-> nextId + i - 1]

\* lines 228-258: read the clock, GET (the server hands its records out and
\* deletes them), load both buffers, choose the wallets threshold
Start(kt, kw) ==
    /\ m.pc = "idle" /\ env.runs < MaxRuns
    /\ Readable("trades") /\ Readable("wallets")
    /\ LET trade_data == load_data("trades") \o Fresh(kt)
           wallet_data == load_data("wallets") \o [i \in 1..kw |-> nextId + kt + i - 1]
       IN  m' = [pc |-> "wloop", date_id |-> clock, n |-> 0, stored |-> FALSE,
                 trade_data |-> trade_data, wallet_data |-> wallet_data,
                 max_records |-> IF Len(trade_data) >= max_records_init
                                 THEN Len(wallet_data) ELSE max_records_init,
                 loaded |-> [trades |-> trade_data, wallets |-> wallet_data],
                 written |-> <<>>]
    /\ nextId' = nextId + kt + kw
    /\ env' = [env EXCEPT !.runs = @ + 1, !.trades = @ + kt]
    /\ UNCHANGED <<db, reqs, disk, zips, buffer, clock, cs>>

\* lines 259-264: while len(wallet_data) >= max_records: write one export file
WalletExport ==
    /\ m.pc = "wloop"
    /\ Len(m.wallet_data) >= m.max_records => m.n < MaxLoop
    /\ IF Len(m.wallet_data) >= m.max_records
       THEN /\ disk' = Put(disk, ExportName("wallets", m.date_id, m.n),
                           Convert(Take(m.wallet_data, m.max_records)))
            /\ m' = [m EXCEPT !.stored = TRUE, !.pc = "wsave",
                              !.wallet_data = Drop(m.wallet_data, m.max_records)]
       ELSE /\ m' = [m EXCEPT !.pc = "wfinal"]
            /\ UNCHANGED disk
    /\ UNCHANGED <<db, reqs, zips, buffer, clock, nextId, cs, env>>

\* lines 265-268: persist the rest, n += 1
WalletSave ==
    /\ m.pc = "wsave"
    /\ buffer' = save_data("wallets", m.wallet_data)
    /\ m' = [m EXCEPT !.n = m.n + 1, !.pc = "wloop"]
    /\ UNCHANGED <<db, reqs, disk, zips, clock, nextId, cs, env>>

\* lines 269-274: persist the unmodified buffer, reset for the trades loop
WalletFinal ==
    /\ m.pc = "wfinal"
    /\ buffer' = IF m.stored = FALSE THEN save_data("wallets", m.wallet_data) ELSE buffer
    /\ m' = [m EXCEPT !.stored = FALSE, !.n = 0, !.max_records = max_records_init,
                      !.pc = "tloop"]
    /\ UNCHANGED <<db, reqs, disk, zips, clock, nextId, cs, env>>

\* lines 275-280: while len(trade_data) >= max_records: write one export file
TradeExport ==
    /\ m.pc = "tloop"
    /\ IF Len(m.trade_data) >= m.max_records
       THEN LET name == ExportName("trades", m.date_id, m.n)
                file == Convert(Take(m.trade_data, m.max_records))
            IN  /\ disk' = Put(disk, name, file)
                /\ m' = [m EXCEPT !.stored = TRUE, !.pc = "tsave",
                                  !.trade_data = Drop(m.trade_data, m.max_records),
                                  !.written = Append(m.written, [name |-> name, file |-> file])]
       ELSE /\ m' = [m EXCEPT !.pc = "tfinal"]
            /\ UNCHANGED disk
    /\ UNCHANGED <<db, reqs, zips, buffer, clock, nextId, cs, env>>

\* variant: the buffer is persisted without removing the exported batch
TradeSave_unsliced ==
    /\ m.pc = "tsave"
    /\ buffer' = save_data("trades", RecordsIn(m.written[Len(m.written)].file) \o m.trade_data)
    /\ m' = [m EXCEPT !.pc = "tcompact"]
    /\ UNCHANGED <<db, reqs, disk, zips, clock, nextId, cs, env>>

\* lines 281-283: persist the rest
TradeSave ==
    /\ m.pc = "tsave"
    /\ buffer' = save_data("trades", m.trade_data)
    /\ m' = [m EXCEPT !.pc = "tcompact"]
    /\ UNCHANGED <<db, reqs, disk, zips, clock, nextId, cs, env>>

\* line 284: compact_csv_files('/app/data', 'trades', date_id, 'wallets', n)
TradeCompact ==
    /\ m.pc = "tcompact"
    /\ cs' = <<NewFrame("compact", "trades", m.date_id, "wallets", m.n)>>
    /\ m' = [m EXCEPT !.pc = "compacting"]
    /\ UNCHANGED <<db, reqs, disk, zips, buffer, clock, nextId, env>>

\* line 285: very_compact_csv_files('/app/data', 'trades', date_id, 'wallets', n)
TradeVeryCompact ==
    /\ m.pc = "compacting" /\ cs = <<>>
    /\ cs' = <<NewFrame("very", "trades", m.date_id, "wallets", m.n)>>
    /\ m' = [m EXCEPT !.pc = "archiving"]
    /\ UNCHANGED <<db, reqs, disk, zips, buffer, clock, nextId, env>>

\* line 286: n += 1
TradeNext ==
    /\ m.pc = "archiving" /\ cs = <<>>
    /\ m' = [m EXCEPT !.n = m.n + 1, !.pc = "tloop"]
    /\ UNCHANGED <<db, reqs, disk, zips, buffer, clock, nextId, cs, env>>

\* lines 287-288: persist the unmodified buffer
TradeFinal ==
    /\ m.pc = "tfinal"
    /\ buffer' = IF m.stored = FALSE THEN save_data("trades", m.trade_data) ELSE buffer
    /\ m' = [m EXCEPT !.pc = "sleep"]
    /\ UNCHANGED <<db, reqs, disk, zips, clock, nextId, cs, env>>

\* lines 289-290: time.sleep(30), the process ends; the next run reads a later clock
Sleep ==
    /\ m.pc = "sleep"
    /\ m' = Idle
    /\ clock' = clock + 1
    /\ UNCHANGED <<db, reqs, disk, zips, buffer, nextId, cs, env>>

\* what the running cycle has put into export files so far
Exported(stream) ==
    Range(m.loaded[stream]) \
        Range(IF stream = "trades" THEN m.trade_data ELSE m.wallet_data)

\* the streams whose buffer file the next step of main replaces
Saving ==
    IF m.pc = "wsave" \/ (m.pc = "wfinal" /\ m.stored = FALSE) THEN {"wallets"}
    ELSE IF m.pc = "tsave" \/ (m.pc = "tfinal" /\ m.stored = FALSE) THEN {"trades"}
    ELSE {}

\* lines 245-254 when a buffer file is no JSON document: the GET has handed
\* the records out, json.load raises JSONDecodeError and the process ends
LoadError(kt, kw) ==
    /\ m.pc = "idle" /\ env.runs < MaxRuns
    /\ ~(Readable("trades") /\ Readable("wallets"))
    /\ nextId' = nextId + kt + kw
    /\ env' = [env EXCEPT !.runs = @ + 1, !.trades = @ + kt]
    /\ UNCHANGED <<db, reqs, disk, zips, buffer, clock, m, cs>>

\* the process dies: memory is lost, the closed files stay; it may be
\* restarted within the same second.  When it dies inside save_data the file
\* is left truncated or partly written.  The death while a merged file is
\* open for writing is followed under the direct caller (CrashCompact)
Crash ==
    /\ m.pc \notin {"idle", "none"}
    /\ ~(cs # <<>> /\ Top.pc = "merge")
    /\ env.crashes < MaxCrashes
    /\ m' = Idle
    /\ cs' = <<>>
    /\ \E torn \in SUBSET Saving :
         buffer' = [s \in DOMAIN buffer \cup torn |->
                      IF s \in torn THEN Torn ELSE buffer[s]]
    /\ \E dt \in {0, 1} : clock' = clock + dt
    /\ env' = [env EXCEPT !.crashes = @ + 1,
                          !.crashAt = IF m.pc \in {"tsave", "wsave"} THEN m.pc ELSE "other",
                          !.crashLoaded = IF m.pc = "tsave" THEN m.loaded.trades ELSE <<>>,
                          !.redo = @ \cup UNION {Range(load_data(s)) \cap Exported(s) :
                                                   s \in {"trades", "wallets"}}]
    /\ UNCHANGED <<db, reqs, disk, zips, nextId>>

\* the directory is empty or holds nine export and nine combined trades files
\* of an earlier run; the persisted trades buffer is absent or holds one record
InitMain ==
    /\ \E b \in {0, Group - 1} :
         disk = Merge2(Backlog("export", "trades", b, 0),
                       Backlog("combined", "trades", b, Group))
    /\ \E b0 \in {0, 1} :
         /\ buffer = IF b0 = 0 THEN << >>
                     ELSE [s \in {"trades", "wallets"} |->
                             IF s = "trades" THEN <<FirstId>> ELSE <<>>]
         /\ nextId = FirstId + b0
    /\ zips = << >>
    /\ clock = 1
    /\ m = Idle
    /\ cs = <<>>
    /\ env = NoEnv
    /\ NoStore

\* the steps of a running cycle
MainStep ==
    \/ WalletExport
    \/ WalletSave
    \/ WalletFinal
    \/ TradeExport
    \/ TradeSave
    \/ TradeCompact
    \/ TradeVeryCompact
    \/ TradeNext
    \/ TradeFinal
    \/ Sleep
    \/ CompactionStep

\* cycles of main that are never interrupted
Next ==
    \/ \E kt \in 0..MaxTotal, kw \in 0..MaxFetchW :
          env.trades + kt <= MaxTotal /\ Start(kt, kw)
    \/ MainStep

Spec == InitMain /\ [][Next]_vars

\* cycles of main that a crash may interrupt
NextCrash ==
    \/ \E kt \in 0..MaxCrashTotal, kw \in 0..MaxFetchW :
          env.trades + kt <= MaxCrashTotal /\ Start(kt, kw)
    \/ MainStep
    \/ Crash
    \/ \E kt \in 0..MaxCrashTotal, kw \in 0..MaxFetchW :
          env.trades + kt <= MaxCrashTotal /\ LoadError(kt, kw)

SpecCrash == InitMain /\ [][NextCrash]_vars


(* ------------------- numbers of the normalization --------------------- *)
\* A float is modelled as an integer count of units of 1/Scale that has at
\* most FloatBits significant bits (53 in the code's IEEE doubles); every
\* arithmetic operation rounds its exact result to the nearest such value,
\* ties to even.  f'{x:.6f}' rounds to the nearest multiple of Grid units
\* (10^-6 in the code).
Scale == 64
FloatBits == 10
Grid == 16

Abs(x) == IF x < 0 THEN -x ELSE x

RECURSIVE Pow2(_)
Pow2(k) == IF k = 0 THEN 1 ELSE 2 * Pow2(k - 1)

\* n / d (n >= 0, d > 0) rounded to the nearest integer, ties to even
RN(n, d) ==
    LET q == n \div d
        r == n % d
    IN  IF 2 * r < d THEN q
        ELSE IF 2 * r > d THEN q + 1
        ELSE IF q % 2 = 0 THEN q ELSE q + 1

\* the spacing of the floats around n / d (n >= 0, d > 0)
RECURSIVE StepOf(_, _, _)
StepOf(n, d, s) == IF n < Pow2(FloatBits) * d * s THEN s ELSE StepOf(n, d, 2 * s)

\* the float nearest to the exact value n / d units (d > 0)
Fl(n, d) ==
    LET a == Abs(n)
        s == StepOf(a, d, 1)
        v == s * RN(a, d * s)
    IN  IF n < 0 THEN -v ELSE v

\* x * y, x / y, x + y and x - y on floats
Mul(x, y) == Fl(x * y, Scale)
Div(x, y) == IF y < 0 THEN Fl(-(x * Scale), -y) ELSE Fl(x * Scale, y)
Add(x, y) == Fl(x + y, 1)
Sub(x, y) == Fl(x - y, 1)

\* float(f'{x:.6f}')
Round6(x) ==
    LET v == Fl(Grid * RN(Abs(x), Grid), 1)
    IN  IF x < 0 THEN -v ELSE v

(* ------------- normalization (src/Retriever, src/Server) -------------- *)
Currencies == {"EUR", "USD", "GBP"}

\* the rates a price table may hold: 0, 1/4, 2/4, ... (in units)
RateStride == 16
Rates == {k * RateStride : k \in 0..MaxRateK}

\* fiat price tables: a rate for some of the non-reference currencies
PriceTables == UNION {[S -> Rates] : S \in SUBSET {"USD", "GBP"}}

\* the amounts a caller passes
CallStride == 1000
CallAmounts == {Fl(k * CallStride, 1) : k \in (0 - MaxCallK)..MaxCallK}

\* the amounts swept for the round trip: 0, 5/8, 10/8, ... (in units)
SweepStride == 40
SweepAmounts == {Fl(k * SweepStride, 1) : k \in 0..MaxSweepK}

\* a returned value / a raised exception
Ok(v) == [err |-> "none", val |-> v]
Raise(e) == [err |-> e, val |-> 0]

\* variant: the multiplication reads the rate of the source currency
convert_wrong_rate(fiat_prices, amount, from_currency, to_currency) ==
    IF from_currency = to_currency THEN Ok(amount)
    ELSE IF to_currency = "EUR" \/ from_currency = "EUR"
    THEN LET c == IF to_currency = "EUR" THEN from_currency ELSE to_currency
         IN  IF c \notin DOMAIN fiat_prices THEN Raise("KeyError")
             ELSE IF fiat_prices[c] = 0 THEN Raise("ZeroDivisionError")
             ELSE Ok(Div(amount, fiat_prices[c]))
    ELSE Ok(amount)

\* variant: the conversion to the reference currency multiplies too
convert_multiplies(fiat_prices, amount, from_currency, to_currency) ==
    IF from_currency = to_currency THEN Ok(amount)
    ELSE IF to_currency = "EUR" \/ from_currency = "EUR"
    THEN LET c == IF to_currency = "EUR" THEN from_currency ELSE to_currency
         IN  IF c \notin DOMAIN fiat_prices THEN Raise("KeyError")
             ELSE Ok(Mul(amount, fiat_prices[c]))
    ELSE Ok(amount)

\* CurrencyConverter.convert
convert(fiat_prices, amount, from_currency, to_currency) ==
    IF from_currency = to_currency THEN Ok(amount)
    ELSE IF from_currency = "EUR"
    THEN IF to_currency \notin DOMAIN fiat_prices THEN Raise("KeyError")
         ELSE Ok(Mul(amount, fiat_prices[to_currency]))
    ELSE IF to_currency = "EUR"
    THEN IF from_currency \notin DOMAIN fiat_prices THEN Raise("KeyError")
         ELSE IF fiat_prices[from_currency] = 0 THEN Raise("ZeroDivisionError")
         ELSE Ok(Div(amount, fiat_prices[from_currency]))
    ELSE Ok(amount)

\* the other variables while only the normalization runs
NormRest ==
    /\ disk = << >> /\ zips = << >> /\ buffer = << >>
    /\ clock = 1 /\ nextId = 1 /\ cs = <<>> /\ env = NoEnv
    /\ NoStore

InitNorm ==
    /\ m = [pc |-> "ready"]
    /\ NormRest

\* a call converter.convert(amount, from_currency, to_currency)
ConvertCall(fiat_prices, amount, from_currency, to_currency) ==
    /\ m.pc = "ready"
    /\ m' = [pc |-> "convert", fiat_prices |-> fiat_prices, amount |-> amount,
             from_currency |-> from_currency, to_currency |-> to_currency,
             result |-> convert(fiat_prices, amount, from_currency, to_currency)]
    /\ UNCHANGED <<db, reqs, disk, zips, buffer, clock, nextId, cs, env>>

\* convert(convert(amount, X, "EUR"), "EUR", X)
RoundTripCall(fiat_prices, amount, X) ==
    /\ m.pc = "ready"
    /\ LET there == convert(fiat_prices, amount, X, "EUR")
       IN  m' = [pc |-> "roundtrip", fiat_prices |-> fiat_prices, amount |-> amount,
                 from_currency |-> X, to_currency |-> "EUR",
                 result |-> IF there.err # "none" THEN there
                            ELSE convert(fiat_prices, there.val, "EUR", X)]
    /\ UNCHANGED <<db, reqs, disk, zips, buffer, clock, nextId, cs, env>>

\* exchange rates of a payload: the rates of the grid and one between two
\* grid points, which the 6-decimal rounding moves
ExchangeRates == (Rates \ {0}) \cup {4 * RateStride + RateStride \div 2}

\* the flat market baseline of 100 units
Hundred == Fl(100 * Scale, 1)

\* SwapCalculator._is_relevant_pair
_is_relevant_pair(from_currency, to_currency) ==
    <<from_currency, to_currency>> \in {<<"EUR", "USD">>, <<"USD", "EUR">>}

\* SwapCalculator._poundered_amount
_poundered_amount(fiat_prices, from_currency, to_currency) ==
    IF _is_relevant_pair(from_currency, to_currency)
    THEN convert(fiat_prices, Hundred, from_currency, to_currency)
    ELSE Ok(Hundred)

\* SwapCalculator.calculate_percentage
calculate_percentage(fiat_prices, exchangeRate, from_currency, to_currency) ==
    LET flat_gain == Mul(Hundred, exchangeRate)
        poundered_amount == _poundered_amount(fiat_prices, from_currency, to_currency)
    IN  IF poundered_amount.err # "none" THEN poundered_amount
        ELSE Ok(Sub(flat_gain, poundered_amount.val))

\* TradeDataProcessor.format_trade_document, the rentability of the trade:
\* calculate_percentage, the rounding, and the price table of process_trade_all
RetrieverRentability(fiat_prices, exchangeRate, from_currency, to_currency) ==
    LET renta == calculate_percentage(fiat_prices, exchangeRate,
                                      from_currency, to_currency)
    IN  IF renta.err # "none" THEN renta
        ELSE IF "USD" \notin DOMAIN fiat_prices THEN Raise("KeyError")
        ELSE Ok(Round6(renta.val))

\* Server convert_market_rate: the rate is the table's "EUR" entry on both legs
convert_market_rate(amount, from_currency, to_currency, fiat_prices) ==
    IF from_currency = "EUR"
    THEN Ok(Mul(amount, fiat_prices["EUR"]))
    ELSE IF to_currency = "EUR"
    THEN IF fiat_prices["EUR"] = 0 THEN Raise("ZeroDivisionError")
         ELSE Ok(Div(amount, fiat_prices["EUR"]))
    ELSE Ok(amount)

\* Server rentability
rentability(amount, from_currency, to_currency, fiat_prices, rate) ==
    LET swap_gain == Sub(Mul(amount, rate), amount)
        crossing  == \/ (from_currency = "EUR" /\ to_currency # "EUR")
                     \/ (to_currency = "EUR" /\ from_currency # "EUR")
        market    == convert_market_rate(amount, from_currency, to_currency,
                                         fiat_prices)
        corelleration == Sub(Mul(amount, rate), market.val)
    IN  IF crossing
        THEN IF market.err # "none" THEN market
             ELSE convert_market_rate(corelleration, to_currency, "USD",
                                      fiat_prices)
        ELSE IF from_currency = "EUR" /\ to_currency = "EUR"
        THEN convert_market_rate(swap_gain, from_currency, "USD", fiat_prices)
        ELSE Ok(swap_gain)

\* Server receive_json, the price table d["price"] of a payload
ServerPrice(fiat_prices) == [USD |-> Scale, EUR |-> fiat_prices["USD"]]

\* Server receive_json, the rentability of the trade: the rate is rounded
\* first, the result is rounded last
ServerRentability(fiat_prices, exchangeRate, from_currency, to_currency) ==
    IF "USD" \notin DOMAIN fiat_prices THEN Raise("KeyError")
    ELSE LET renta == rentability(Hundred, from_currency, to_currency,
                                  ServerPrice(fiat_prices), Round6(exchangeRate))
         IN  IF renta.err # "none" THEN renta ELSE Ok(Round6(renta.val))

\* a call convert_market_rate(amount, from_currency, to_currency, d["price"])
\* of the Server, with d["price"] built from the fiatPrices of the payload
MarketRateCall(fiat_prices, amount, from_currency, to_currency) ==
    /\ m.pc = "ready"
    /\ m' = [pc |-> "convert_market_rate", fiat_prices |-> fiat_prices,
             amount |-> amount,
             from_currency |-> from_currency, to_currency |-> to_currency,
             result |-> IF "USD" \notin DOMAIN fiat_prices THEN Raise("KeyError")
                        ELSE convert_market_rate(amount, from_currency, to_currency,
                                                 ServerPrice(fiat_prices))]
    /\ UNCHANGED <<db, reqs, disk, zips, buffer, clock, nextId, cs, env>>

\* the Retriever normalizes the trade of a payload
RetrieverTrade(fiat_prices, exchangeRate, from_currency, to_currency) ==
    /\ m.pc = "ready"
    /\ m' = [pc |-> "format_trade_document", fiat_prices |-> fiat_prices,
             rate |-> exchangeRate,
             from_currency |-> from_currency, to_currency |-> to_currency,
             result |-> RetrieverRentability(fiat_prices, exchangeRate,
                                             from_currency, to_currency)]
    /\ UNCHANGED <<db, reqs, disk, zips, buffer, clock, nextId, cs, env>>

\* the Server normalizes the trade of a payload
ServerTrade(fiat_prices, exchangeRate, from_currency, to_currency) ==
    /\ m.pc = "ready"
    /\ m' = [pc |-> "receive_json", fiat_prices |-> fiat_prices,
             rate |-> Round6(exchangeRate),
             from_currency |-> from_currency, to_currency |-> to_currency,
             result |-> ServerRentability(fiat_prices, exchangeRate,
                                          from_currency, to_currency)]
    /\ UNCHANGED <<db, reqs, disk, zips, buffer, clock, nextId, cs, env>>

\* key strings are sequences of characters
Str137 == <<"1", "3", "7">>
StrSolana == <<"s", "o", "l", "a", "n", "a">>
StrEUR == <<"E", "U", "R">>
StrUSD == <<"U", "S", "D">>

\* the wallet entries of a payload: EUR or USD on a supported or another
\* chain with an amount on or off the 6-decimal grid, and on chain "137" a
\* currency code that ends in neither and one that only ends in EUR
WalletChains == {Str137, StrSolana, <<"5", "6">>}
WalletCurrencies == {<<"G", "B", "P">>, <<"s", "E", "U", "R">>}
WalletAmounts == {10 * Scale, 5 * Scale + Grid \div 4}
WalletEntries ==
    [chain : WalletChains, address : {<<"0", "x", "A">>},
     currency : {StrEUR, StrUSD}, amount : WalletAmounts]
    \cup [chain : {Str137}, address : {<<"0", "x", "A">>},
          currency : WalletCurrencies, amount : {10 * Scale}]
WalletLists == UNION {[1..n -> WalletEntries] : n \in 0..MaxEntries}

\* the price tables a wallet is valued with: none, or a rate for USD
WalletRateStride == 72
WalletTables ==
    {<< >>} \cup {[c \in {"USD"} |-> k * WalletRateStride] : k \in 0..MaxWalletRateK}
Timestamps == 1..MaxStamp

\* TradeDataProcessor._generate_wallet_key: f'{chain}:{address}:{currency}'
_generate_wallet_key(entry) ==
    entry.chain \o <<":">> \o entry.address \o <<":">> \o entry.currency

\* key.split(":")[0]
RECURSIVE FirstSegment(_)
FirstSegment(key) ==
    IF key = << >> \/ Head(key) = ":" THEN << >>
    ELSE <<Head(key)>> \o FirstSegment(Tail(key))

\* key[-3:]
Last3(key) ==
    IF Len(key) <= 3 THEN key ELSE SubSeq(key, Len(key) - 2, Len(key))

\* processed_data[key] = value on a dict, which keeps the order of insertion:
\* an existing key keeps its place
SetItem(processed_data, key, value) ==
    IF \E i \in 1..Len(processed_data) : processed_data[i].key = key
    THEN [i \in 1..Len(processed_data) |->
            IF processed_data[i].key = key
            THEN [key |-> key, val |-> value] ELSE processed_data[i]]
    ELSE Append(processed_data, [key |-> key, val |-> value])

RECURSIVE ProcessFrom(_, _)
ProcessFrom(wallet_data, processed_data) ==
    IF wallet_data = << >> THEN processed_data
    ELSE ProcessFrom(Tail(wallet_data),
                     SetItem(processed_data, _generate_wallet_key(Head(wallet_data)),
                             Round6(Head(wallet_data).amount)))

\* TradeDataProcessor._process_entries (the loop over REF in the Server)
_process_entries(wallet_data) == ProcessFrom(wallet_data, << >>)

\* sum(wallet[i] for i in wallet if i.split(":")[0] == chain and i[-3:] == suffix)
RECURSIVE SumWhere(_, _, _, _)
SumWhere(wallet, chain, suffix, acc) ==
    IF wallet = << >> THEN acc
    ELSE SumWhere(Tail(wallet), chain, suffix,
                  IF /\ FirstSegment(Head(wallet).key) = chain
                     /\ Last3(Head(wallet).key) = suffix
                  THEN Add(acc, Head(wallet).val) ELSE acc)

\* variant: the sums take the entries of every chain
_calculate_chain_values_every_chain(fiat_prices, wallet, chain) ==
    LET eur_sum == SumWhere(wallet, chain, StrEUR, 0)
                   + SumWhere(wallet, <<"5", "6">>, StrEUR, 0)
        usd_sum == SumWhere(wallet, chain, StrUSD, 0)
        conv    == convert(fiat_prices, eur_sum, "EUR", "USD")
    IN  IF conv.err # "none" THEN conv
        ELSE Ok([EUR |-> Round6(eur_sum), USD |-> Round6(usd_sum),
                 total |-> Round6(Add(usd_sum, conv.val))])

\* TradeDataProcessor._calculate_chain_values
_calculate_chain_values(fiat_prices, wallet, chain) ==
    LET eur_sum == SumWhere(wallet, chain, StrEUR, 0)
        usd_sum == SumWhere(wallet, chain, StrUSD, 0)
        conv    == convert(fiat_prices, eur_sum, "EUR", "USD")
    IN  IF conv.err # "none" THEN conv
        ELSE Ok([EUR |-> Round6(eur_sum), USD |-> Round6(usd_sum),
                 total |-> Round6(Add(usd_sum, conv.val))])

\* TradeDataProcessor.wallet_value
wallet_value(fiat_prices, wallet) ==
    LET c137 == _calculate_chain_values(fiat_prices, wallet, Str137)
        csol == _calculate_chain_values(fiat_prices, wallet, StrSolana)
    IN  IF c137.err # "none" THEN c137
        ELSE IF csol.err # "none" THEN csol
        ELSE Ok([by_chain |-> [c \in {Str137, StrSolana} |->
                                 IF c = Str137 THEN c137.val ELSE csol.val],
                 total |-> Round6(Add(Add(0, c137.val.total), csol.val.total))])

\* Server wallet_value: nothing is rounded
Server_wallet_value(wallet, fiat_prices) ==
    LET chain_data(chain) ==
            LET eur_sum == SumWhere(wallet, chain, StrEUR, 0)
                usd_sum == SumWhere(wallet, chain, StrUSD, 0)
            IN  [EUR |-> eur_sum, USD |-> usd_sum,
                 total |-> Add(usd_sum,
                               convert_market_rate(eur_sum, "EUR", "USD",
                                                   fiat_prices).val)]
        c137 == chain_data(Str137)
        csol == chain_data(StrSolana)
    IN  [by_chain |-> [c \in {Str137, StrSolana} |->
                          IF c = Str137 THEN c137 ELSE csol],
         total |-> Add(Add(0, c137.total), csol.total)]

\* str(data) of the data payload: the entries in the order of the dict, then
\* the value
str(data) == <<data.stable_coins, data.value>>

\* hashlib.md5 and hashlib.sha256 of a string, taken to be free of collisions
md5(string) == <<"md5", string>>
sha256(string) == <<"sha256", string>>

\* TradeDataProcessor._construct_wallet_return_data
_construct_wallet_return_data(fiat_prices, wallet_data, timestamp) ==
    LET value == wallet_value(fiat_prices, wallet_data)
        data  == [stable_coins |-> wallet_data, value |-> value.val]
    IN  IF value.err # "none" THEN value
        ELSE Ok([data |-> data, timestamp |-> timestamp, id |-> md5(str(data))])

\* TradeDataProcessor.process_wallet_data
process_wallet_data(fiat_prices, wallet_data, timestamp) ==
    _construct_wallet_return_data(fiat_prices, _process_entries(wallet_data),
                                  timestamp)

\* Server receive_json, the wallet of a payload
ServerWalletDoc(fiat_prices, wallet_data, dt) ==
    IF "USD" \notin DOMAIN fiat_prices THEN Raise("KeyError")
    ELSE LET REF  == _process_entries(wallet_data)
             data == [stable_coins |-> REF,
                      value |-> Server_wallet_value(REF, ServerPrice(fiat_prices))]
         IN  Ok([data |-> data, timestamp |-> dt, id |-> sha256(str(data))])

\* the Retriever normalizes the wallet of a payload
RetrieverWallet(fiat_prices, wallet_data, timestamp) ==
    /\ m.pc = "ready"
    /\ m' = [pc |-> "process_wallet_data", fiat_prices |-> fiat_prices,
             wallet_data |-> wallet_data, timestamp |-> timestamp,
             result |-> process_wallet_data(fiat_prices, wallet_data, timestamp)]
    /\ UNCHANGED <<db, reqs, disk, zips, buffer, clock, nextId, cs, env>>

\* the Server normalizes the wallet of a payload
ServerWallet(fiat_prices, wallet_data, dt) ==
    /\ m.pc = "ready"
    /\ m' = [pc |-> "receive_json.wallet", fiat_prices |-> fiat_prices,
             wallet_data |-> wallet_data, timestamp |-> dt,
             result |-> ServerWalletDoc(fiat_prices, wallet_data, dt)]
    /\ UNCHANGED <<db, reqs, disk, zips, buffer, clock, nextId, cs, env>>

\* the caller has its result and is ready for the next call
NormReturn ==
    /\ m.pc \notin {"ready", "none", "idle"} /\ "result" \in DOMAIN m
    /\ m' = [pc |-> "ready"]
    /\ UNCHANGED <<db, reqs, disk, zips, buffer, clock, nextId, cs, env>>

NextNorm ==
    \/ /\ m.pc = "ready"
       /\ \E fp \in PriceTables, a \in CallAmounts, f \in Currencies, t \in Currencies :
            ConvertCall(fp, a, f, t)
    \/ /\ m.pc = "ready"
       /\ \E fp \in PriceTables, a \in CallAmounts, f \in Currencies, t \in Currencies :
            MarketRateCall(fp, a, f, t)
    \/ /\ m.pc = "ready"
       /\ \E X \in {"USD", "GBP"}, r \in Rates, a \in SweepAmounts :
            RoundTripCall([c \in {X} |-> r], a, X)
    \/ /\ m.pc = "ready"
       /\ \E fp \in PriceTables, x \in ExchangeRates, f \in Currencies, t \in Currencies :
            RetrieverTrade(fp, x, f, t)
    \/ /\ m.pc = "ready"
       /\ \E fp \in PriceTables, x \in ExchangeRates, f \in Currencies, t \in Currencies :
            ServerTrade(fp, x, f, t)
    \/ /\ m.pc = "ready"
       /\ \E fp \in WalletTables, w \in WalletLists, ts \in Timestamps :
            RetrieverWallet(fp, w, ts)
    \/ /\ m.pc = "ready"
       /\ \E fp \in WalletTables, w \in WalletLists, ts \in Timestamps :
            ServerWallet(fp, w, ts)
    \/ NormReturn

SpecNorm == InitNorm /\ [][NextNorm]_vars

(* ------- flatten_json and the export format (src/Client, src/Compacter) -- *)
\* A nested value is a scalar [t |-> "scalar", v |-> n], a dict
\* [t |-> "dict", items |-> <<[k |-> key, v |-> value], ...>>] with its keys in
\* the order of insertion, or a list [t |-> "list", items |-> <<value, ...>>].
\* Keys are strings, written as sequences of characters.
Scalar(n) == [t |-> "scalar", v |-> n]
Dict(items) == [t |-> "dict", items |-> items]
List(items) == [t |-> "list", items |-> items]

\* the keys of the mappings: two plain keys and one that holds the separator
FlatKeys == {<<"a">>, <<"b">>, <<"a", ".", "b">>}
ScalarValues == {1, 2}

\* the sequences of k values that have n nodes together
RECURSIVE Forests(_, _), ValuesOfSize(_)
Forests(n, k) ==
    IF k = 0 THEN (IF n = 0 THEN {<<>>} ELSE {})
    ELSE UNION {{<<v>> \o f : v \in ValuesOfSize(j), f \in Forests(n - j, k - 1)} :
                  j \in 1..(n - k + 1)}

\* the assignments of distinct keys to the values of a sequence
Keyed(f) ==
    {[i \in 1..Len(f) |-> [k |-> ks[i], v |-> f[i]]] :
        ks \in {q \in [1..Len(f) -> FlatKeys] :
                  \A i, j \in 1..Len(f) : q[i] = q[j] => i = j}}

\* the nested values of n nodes
ValuesOfSize(n) ==
    IF n = 1 THEN {Scalar(v) : v \in ScalarValues} \cup {Dict(<<>>), List(<<>>)}
    ELSE UNION {{List(f) : f \in Forests(n - 1, k)} \cup
                UNION {{Dict(d) : d \in Keyed(f)} : f \in Forests(n - 1, k)} :
                  k \in 1..(n - 1)}

\* the records handed to flatten_json: the dicts of at most n nodes
NestedRecords(n) ==
    {x \in UNION {ValuesOfSize(k) : k \in 1..n} : x.t = "dict"}

\* str(i) of a list index
DigitChars == <<"0", "1", "2", "3", "4", "5", "6", "7", "8", "9">>

RECURSIVE str_index(_)
str_index(i) ==
    IF i < 10 THEN <<DigitChars[i + 1]>>
    ELSE str_index(i \div 10) \o <<DigitChars[(i % 10) + 1]>>

\* variant: the trailing separator stays in the key
ButLast_keep(name) == name

\* name[:-1]
ButLast(name) == SubSeq(name, 1, Len(name) - 1)

\* the closure flatten(x, name) of flatten_json, with out passed along; the
\* loops over a dict (items from position i) and over a list
RECURSIVE flatten(_, _, _), flatten_dict(_, _, _, _), flatten_list(_, _, _, _)
flatten(x, name, out) ==
    IF x.t = "dict" THEN flatten_dict(x.items, 1, name, out)
    ELSE IF x.t = "list" THEN flatten_list(x.items, 0, name, out)
    ELSE SetItem(out, ButLast(name), x.v)

flatten_dict(items, i, name, out) ==
    IF i > Len(items) THEN out
    ELSE flatten_dict(items, i + 1, name,
                      flatten(items[i].v, name \o items[i].k \o <<".">>, out))

flatten_list(items, i, name, out) ==
    IF i >= Len(items) THEN out
    ELSE flatten_list(items, i + 1, name,
                      flatten(items[i + 1], name \o str_index(i) \o <<".">>, out))

\* CSVConverter.flatten_json (src/Client)
CSVConverter_flatten_json(nested_json) == flatten(nested_json, <<>>, <<>>)

\* CSVExporter.flatten_json (src/Compacter)
CSVExporter_flatten_json(nested_json) == flatten(nested_json, <<>>, <<>>)

\* a call CSVConverter.flatten_json(nested_json)
FlattenCall(nested_json) ==
    /\ m.pc = "ready"
    /\ m' = [pc |-> "CSVConverter.flatten_json", nested_json |-> nested_json,
             result |-> CSVConverter_flatten_json(nested_json)]
    /\ UNCHANGED <<db, reqs, disk, zips, buffer, clock, nextId, cs, env>>

\* a call CSVExporter.flatten_json(nested_json)
ExporterFlattenCall(nested_json) ==
    /\ m.pc = "ready"
    /\ m' = [pc |-> "CSVExporter.flatten_json", nested_json |-> nested_json,
             result |-> CSVExporter_flatten_json(nested_json)]
    /\ UNCHANGED <<db, reqs, disk, zips, buffer, clock, nextId, cs, env>>

\* the records of the exported batches
ExportRecords ==
    { Dict(<<>>),
      Dict(<<[k |-> <<"a">>, v |-> Scalar(1)]>>),
      Dict(<<[k |-> <<"b">>, v |-> Scalar(2)]>>),
      Dict(<<[k |-> <<"b">>, v |-> Scalar(2)], [k |-> <<"a">>, v |-> Scalar(1)]>>),
      Dict(<<[k |-> <<"b">>, v |-> Dict(<<[k |-> <<"a">>,
                                          v |-> List(<<Scalar(1), Scalar(2)>>)]>>)]>>),
      Dict(<<[k |-> <<"a", ".", "b">>, v |-> Scalar(2)],
             [k |-> <<"a">>, v |-> Dict(<<[k |-> <<"b">>, v |-> Scalar(1)]>>)]>>) }

Batches(n) == UNION {[1..k -> ExportRecords] : k \in 0..n}

\* the keys of a flat mapping
Keys(flat) == {flat[i].key : i \in 1..Len(flat)}

\* rowdict.get(key, '')
Get(flat, key) ==
    IF key \in Keys(flat)
    THEN flat[CHOOSE i \in 1..Len(flat) : flat[i].key = key].val
    ELSE Empty

\* the orders in which a set can be iterated
Orders(S) ==
    {q \in [1..Cardinality(S) -> S] : \A i, j \in DOMAIN q : q[i] = q[j] => i = j}

\* csv.DictWriter.writerow: one cell per fieldname, in the order of fieldnames
writerow(fieldnames, rowdict) ==
    [i \in 1..Len(fieldnames) |-> Get(rowdict, fieldnames[i])]

\* the columns of a batch: fieldnames.update(record.keys()) for each record
FieldnamesOf(flat_data) == UNION {Keys(flat_data[i]) : i \in 1..Len(flat_data)}

\* CSVConverter.convert (src/Client): fieldnames is a set, and order is the
\* order in which the writer iterates it
CSVConverter_convert(data, order) ==
    LET flat_data == [i \in 1..Len(data) |-> CSVConverter_flatten_json(data[i])]
    IN  [header |-> order,
         rows |-> [i \in 1..Len(data) |-> writerow(order, flat_data[i])]]

\* CSVExporter.export_to_csv_in_memory (src/Compacter)
export_to_csv_in_memory(data, order) ==
    LET flat_data == [i \in 1..Len(data) |-> CSVExporter_flatten_json(data[i])]
    IN  [header |-> order,
         rows |-> [i \in 1..Len(data) |-> writerow(order, flat_data[i])]]

\* a call CSVConverter.convert(data, output_file)
ConvertCall_Client(data) ==
    /\ m.pc = "ready"
    /\ \E order \in Orders(FieldnamesOf([i \in 1..Len(data) |->
                                           CSVConverter_flatten_json(data[i])])) :
          m' = [pc |-> "convert_csv", data |-> data,
                result |-> CSVConverter_convert(data, order)]
    /\ UNCHANGED <<db, reqs, disk, zips, buffer, clock, nextId, cs, env>>

\* a call CSVExporter.export_to_csv_in_memory(data, filename)
ExportCall_Compacter(data) ==
    /\ m.pc = "ready"
    /\ \E order \in Orders(FieldnamesOf([i \in 1..Len(data) |->
                                           CSVExporter_flatten_json(data[i])])) :
          m' = [pc |-> "export_to_csv_in_memory", data |-> data,
                result |-> export_to_csv_in_memory(data, order)]
    /\ UNCHANGED <<db, reqs, disk, zips, buffer, clock, nextId, cs, env>>

NextFlat ==
    \/ /\ m.pc = "ready"
       /\ \E r \in NestedRecords(MaxNodes) : FlattenCall(r)
    \/ /\ m.pc = "ready"
       /\ \E r \in NestedRecords(MaxNodes) : ExporterFlattenCall(r)
    \/ /\ m.pc = "ready"
       /\ \E data \in Batches(MaxBatch) : ConvertCall_Client(data)
    \/ /\ m.pc = "ready"
       /\ \E data \in Batches(MaxBatch) : ExportCall_Compacter(data)
    \/ NormReturn

SpecFlat == InitNorm /\ [][NextFlat]_vars

(* ------- the store: receive_json and get_all_json (Retriever, Server) --- *)
\* An element of a POSTed list: the price table, the rate and the pair of its
\* trade, and its wallet; missing names a field that the element lacks
\* ("none": the element is complete). Wallet entries are always complete.
Element(missing, fiat_prices, from_currency, to_currency, wallet) ==
    [missing |-> missing, fiat_prices |-> fiat_prices, exchangeRate |-> Scale,
     from_currency |-> from_currency, to_currency |-> to_currency, wallet |-> wallet]

EntryOf(currency) ==
    [chain |-> Str137, address |-> <<"0", "x", "A">>, currency |-> currency,
     amount |-> 10 * Scale]

\* the elements posted: two wallets that list the same entries in another order,
\* a pair with a currency the table has no rate for, a table without the USD
\* rate, an element without 'pair' and one without 'gasCosts'
StoreElements ==
    LET usd == [c \in {"USD"} |-> 5 * RateStride]
    IN  { Element("none", usd, "EUR", "USD", <<EntryOf(StrEUR), EntryOf(StrUSD)>>),
          Element("none", usd, "EUR", "USD", <<EntryOf(StrUSD), EntryOf(StrEUR)>>),
          Element("none", usd, "USD", "EUR", <<EntryOf(StrUSD)>>),
          Element("none", usd, "EUR", "GBP", <<EntryOf(StrEUR)>>),
          Element("none", << >>, "USD", "EUR", <<EntryOf(StrUSD)>>),
          Element("pair", usd, "EUR", "USD", <<EntryOf(StrEUR)>>),
          Element("gasCosts", usd, "EUR", "USD", <<EntryOf(StrEUR)>>) }

\* what the requests so far have cost: one per element, one per empty request
RECURSIVE Posted(_)
Posted(rs) ==
    IF rs = <<>> THEN 0
    ELSE (IF Head(rs).method = "POST" /\ Head(rs).datas # <<>>
          THEN Len(Head(rs).datas) ELSE 1) + Posted(Tail(rs))

\* the lists a request may post
Payloads == UNION {[1..n -> StoreElements] : n \in 0..(MaxPosted - Posted(reqs))}

\* RequestValidator.validate_trade_data: 'swapConfig' and 'pair' with their
\* keys; gasCosts and feeCosts are not looked at
validate_trade_data(data) == data.missing # "pair"

\* variant: a rate the table lacks is taken to be 1.0
format_trade_document_default_rate(trade_data, timestamp) ==
    LET fiat_prices == [c \in DOMAIN trade_data.fiat_prices \cup {"USD"} |->
                          IF c \in DOMAIN trade_data.fiat_prices
                          THEN trade_data.fiat_prices[c] ELSE Scale]
        renta  == RetrieverRentability(fiat_prices, trade_data.exchangeRate,
                                       trade_data.from_currency, trade_data.to_currency)
        wallet == process_wallet_data(fiat_prices, trade_data.wallet, timestamp)
    IN  IF trade_data.missing # "none" THEN Raise("KeyError")
        ELSE IF renta.err # "none" THEN renta
        ELSE IF wallet.err # "none" THEN wallet
        ELSE Ok([trade |-> [exchange |-> [rate |-> Round6(trade_data.exchangeRate),
                                         from |-> trade_data.from_currency,
                                         to |-> trade_data.to_currency],
                            price |-> ServerPrice(fiat_prices),
                            rentability |-> renta.val, timestamp |-> timestamp],
                 wallet |-> wallet.val])

\* TradeDataProcessor.format_trade_document
format_trade_document(trade_data, timestamp) ==
    LET renta  == RetrieverRentability(trade_data.fiat_prices, trade_data.exchangeRate,
                                       trade_data.from_currency, trade_data.to_currency)
        wallet == process_wallet_data(trade_data.fiat_prices, trade_data.wallet,
                                      timestamp)
    IN  IF trade_data.missing # "none" THEN Raise("KeyError")
        ELSE IF renta.err # "none" THEN renta
        ELSE IF wallet.err # "none" THEN wallet
        ELSE Ok([trade |-> [exchange |-> [rate |-> Round6(trade_data.exchangeRate),
                                         from |-> trade_data.from_currency,
                                         to |-> trade_data.to_currency],
                            price |-> ServerPrice(trade_data.fiat_prices),
                            rentability |-> renta.val, timestamp |-> timestamp],
                 wallet |-> wallet.val])

\* MongoDBHandler.insert_trade; oid is the ObjectId the insertion generates
insert_trade(d, oid, trade_data) ==
    [d EXCEPT !.trades = Append(@, [_id |-> oid, doc |-> trade_data])]

\* MongoDBHandler.insert_wallet
insert_wallet(d, wallet_data) ==
    IF \E k \in 1..Len(d.wallets) : d.wallets[k]._id = wallet_data.id
    THEN d
    ELSE [d EXCEPT !.wallets = Append(@, [_id |-> wallet_data.id, doc |-> wallet_data])]

\* the loop of receive_json that inserts processed_data[index..]
RECURSIVE InsertFrom(_, _, _, _)
InsertFrom(d, rid, processed_data, index) ==
    IF index > Len(processed_data) THEN d
    ELSE InsertFrom(insert_wallet(insert_trade(d, <<rid, index>>,
                                               processed_data[index].val.trade),
                                  processed_data[index].val.wallet),
                    rid, processed_data, index + 1)

\* Retriever receive_json: the whole handler of one request; the timestamp of
\* its processor is its place among the requests
RetrieverPost(datas) ==
    \E rid \in {Len(reqs) + 1} :
    \E processed_data \in {[i \in 1..Len(datas) |-> format_trade_document(datas[i], rid)]} :
    \E status \in {IF datas = <<>> THEN "Missing data"
                   ELSE IF \E i \in 1..Len(datas) : ~validate_trade_data(datas[i])
                   THEN "400"
                   ELSE IF \E i \in 1..Len(datas) : processed_data[i].err # "none"
                   THEN "500"
                   ELSE "200"} :
        /\ reqs' = Append(reqs, [method |-> "POST", datas |-> datas, pc |-> "done",
                                 status |-> status])
        /\ db' = IF status = "200" THEN InsertFrom(db, rid, processed_data, 1) ELSE db
        /\ UNCHANGED <<disk, zips, buffer, clock, nextId, m, cs, env>>

InitStore ==
    /\ m = NoMain /\ NormRest

NextRetriever ==
    /\ Posted(reqs) < MaxPosted
    /\ \E datas \in Payloads : RetrieverPost(datas)

SpecRetriever == InitStore /\ [][NextRetriever]_vars

\* Server receive_json, lines 55-109: the documents of one element
ServerDocs(element, dt) ==
    LET renta  == ServerRentability(element.fiat_prices, element.exchangeRate,
                                    element.from_currency, element.to_currency)
        wallet == ServerWalletDoc(element.fiat_prices, element.wallet, dt)
    IN  IF element.missing # "none" THEN Raise("KeyError")
        ELSE IF renta.err # "none" THEN renta
        ELSE IF wallet.err # "none" THEN wallet
        ELSE Ok([trade |-> [exchange |-> [rate |-> Round6(element.exchangeRate),
                                         from |-> element.from_currency,
                                         to |-> element.to_currency],
                            price |-> ServerPrice(element.fiat_prices),
                            rentability |-> renta.val, timestamp |-> dt],
                 wallet |-> wallet.val])

\* the handler of request rid moves on
SetReq(rid, r) == [reqs EXCEPT ![rid] = r]

\* Server receive_json up to the loop: a request arrives with its list
ServerPost(datas) ==
    /\ reqs' = Append(reqs, [method |-> "POST", datas |-> datas, i |-> 1,
                             pc |-> IF datas = <<>> THEN "done" ELSE "insert_trade",
                             status |-> IF datas = <<>> THEN "Missing data" ELSE ""])
    /\ UNCHANGED <<disk, zips, buffer, clock, nextId, m, cs, env, db>>

\* Server receive_json, lines 55-111: element i is normalized and its trade is
\* inserted; an exception ends the handler
ServerInsertTrade(rid) ==
    LET r == reqs[rid]
        docs == ServerDocs(r.datas[r.i], rid)
    IN  /\ r.method = "POST" /\ r.pc = "insert_trade"
        /\ IF docs.err # "none"
           THEN /\ reqs' = SetReq(rid, [r EXCEPT !.pc = "done", !.status = "500"])
                /\ UNCHANGED db
           ELSE /\ reqs' = SetReq(rid, [r EXCEPT !.pc = "insert_wallet"])
                /\ db' = [db EXCEPT !.trades =
                            Append(@, [_id |-> <<rid, r.i>>, doc |-> docs.val.trade])]
        /\ UNCHANGED <<disk, zips, buffer, clock, nextId, m, cs, env>>

\* Server receive_json, line 112, and the next turn of the loop
ServerInsertWallet(rid) ==
    LET r == reqs[rid]
        docs == ServerDocs(r.datas[r.i], rid)
    IN  /\ r.method = "POST" /\ r.pc = "insert_wallet"
        /\ db' = [db EXCEPT !.wallets =
                    Append(@, [_id |-> <<rid, r.i>>, doc |-> docs.val.wallet])]
        /\ reqs' = SetReq(rid, IF r.i = Len(r.datas)
                               THEN [r EXCEPT !.pc = "done", !.status = "200"]
                               ELSE [r EXCEPT !.pc = "insert_trade", !.i = @ + 1])
        /\ UNCHANGED <<disk, zips, buffer, clock, nextId, m, cs, env>>

\* Server get_all_json, lines 127-129: a GET arrives and reads the trades
ServerGet ==
    /\ reqs' = Append(reqs, [method |-> "GET", pc |-> "find_wallets",
                             result |-> [trades |-> db.trades, wallets |-> <<>>]])
    /\ UNCHANGED <<disk, zips, buffer, clock, nextId, m, cs, env, db>>

\* Server get_all_json, lines 130-131
ServerFindWallets(rid) ==
    LET r == reqs[rid]
    IN  /\ r.method = "GET" /\ r.pc = "find_wallets"
        /\ reqs' = SetReq(rid, [r EXCEPT !.pc = "delete_trades",
                                         !.result.wallets = db.wallets])
        /\ UNCHANGED <<disk, zips, buffer, clock, nextId, m, cs, env, db>>

\* Server get_all_json, line 133: db['trades'].delete_many({})
ServerDeleteTrades(rid) ==
    LET r == reqs[rid]
    IN  /\ r.method = "GET" /\ r.pc = "delete_trades"
        /\ db' = [db EXCEPT !.trades = <<>>]
        /\ reqs' = SetReq(rid, [r EXCEPT !.pc = "delete_wallets"])
        /\ UNCHANGED <<disk, zips, buffer, clock, nextId, m, cs, env>>

\* Server get_all_json, lines 134-143: db['wallets'].delete_many({}) and the
\* response
ServerDeleteWallets(rid) ==
    LET r == reqs[rid]
    IN  /\ r.method = "GET" /\ r.pc = "delete_wallets"
        /\ db' = [db EXCEPT !.wallets = <<>>]
        /\ reqs' = SetReq(rid, [r EXCEPT !.pc = "done"])
        /\ UNCHANGED <<disk, zips, buffer, clock, nextId, m, cs, env>>

\* the handlers of the Server take their steps in any order
NextServer ==
    \/ /\ Posted(reqs) < MaxPosted
       /\ \E datas \in Payloads : ServerPost(datas)
    \/ /\ Posted(reqs) < MaxPosted
       /\ ServerGet
    \/ \E rid \in DOMAIN reqs : ServerInsertTrade(rid)
    \/ \E rid \in DOMAIN reqs : ServerInsertWallet(rid)
    \/ \E rid \in DOMAIN reqs : ServerFindWallets(rid)
    \/ \E rid \in DOMAIN reqs : ServerDeleteTrades(rid)
    \/ \E rid \in DOMAIN reqs : ServerDeleteWallets(rid)

SpecServer == InitStore /\ [][NextServer]_vars

(* ------- the database exporter: export_data (src/Compacter) ----------- *)
\* The exporter works on the collections 'trades' and 'wallets' that the
\* handlers of the Retriever fill, and on 'file_storage'. m holds the position
\* of the exporter process and its locals; a request of reqs holds the position
\* of its handler. Each action is one operation on the database together with
\* the local computation that precedes it.
NoExport ==
    [pc |-> "idle", trade_data |-> <<>>, wallet_data |-> <<>>, runs |-> 0,
     crashes |-> 0]

InitExport ==
    /\ m = NoExport
    /\ db = [trades |-> <<>>, wallets |-> <<>>, file_storage |-> <<>>]
    /\ reqs = <<>>
    /\ disk = << >> /\ zips = << >> /\ buffer = << >>
    /\ clock = 1 /\ nextId = 1 /\ cs = <<>> /\ env = NoEnv

\* the elements posted beside the exporter: two trades with different wallets
ExportElements ==
    LET usd == [c \in {"USD"} |-> 5 * RateStride]
    IN  { Element("none", usd, "EUR", "USD", <<EntryOf(StrEUR), EntryOf(StrUSD)>>),
          Element("none", usd, "USD", "EUR", <<EntryOf(StrUSD)>>) }

ExportPayloads ==
    UNION {[1..n -> ExportElements] : n \in 1..(MaxExportPosted - Posted(reqs))}

\* Retriever receive_json up to the loop of insertions: the list is validated
\* and every element is formatted; the timestamp of the processor is the place
\* of the request among the requests
RetrieverReceive(datas) ==
    \E rid \in {Len(reqs) + 1} :
    \E processed_data \in {[i \in 1..Len(datas) |-> format_trade_document(datas[i], rid)]} :
    \E status \in {IF \E i \in 1..Len(datas) : ~validate_trade_data(datas[i])
                   THEN "400"
                   ELSE IF \E i \in 1..Len(datas) : processed_data[i].err # "none"
                   THEN "500"
                   ELSE ""} :
        /\ reqs' = Append(reqs, [method |-> "POST", datas |-> datas, i |-> 1,
                                 processed_data |-> processed_data,
                                 pc |-> IF status = "" THEN "insert_trade" ELSE "done",
                                 status |-> status])
        /\ UNCHANGED <<disk, zips, buffer, clock, nextId, m, cs, env, db>>

\* Retriever receive_json: MONGO.insert_trade(processed_data[index]["trade"])
RetrieverInsertTrade(rid) ==
    LET r == reqs[rid]
    IN  /\ r.method = "POST" /\ r.pc = "insert_trade"
        /\ db' = insert_trade(db, <<rid, r.i>>, r.processed_data[r.i].val.trade)
        /\ reqs' = SetReq(rid, [r EXCEPT !.pc = "insert_wallet"])
        /\ UNCHANGED <<disk, zips, buffer, clock, nextId, m, cs, env>>

\* Retriever receive_json: MONGO.insert_wallet(processed_data[index]["wallet"])
\* and the next turn of the loop
RetrieverInsertWallet(rid) ==
    LET r == reqs[rid]
    IN  /\ r.method = "POST" /\ r.pc = "insert_wallet"
        /\ db' = insert_wallet(db, r.processed_data[r.i].val.wallet)
        /\ reqs' = SetReq(rid, IF r.i = Len(r.datas)
                               THEN [r EXCEPT !.pc = "done", !.status = "200"]
                               ELSE [r EXCEPT !.pc = "insert_trade", !.i = @ + 1])
        /\ UNCHANGED <<disk, zips, buffer, clock, nextId, m, cs, env>>

\* find({}).sort('timestamp', 1).limit(limit): the documents of the lowest
\* timestamps, in the order of their timestamps; which of several documents of
\* one timestamp come first is not determined. The result is a set of lists.
read_data(collection, limit) ==
    LET n == Len(collection)
        k == IF limit < n THEN limit ELSE n
        ts(i) == collection[i].doc.timestamp
        earlier(i, j) == ts(i) < ts(j) \/ (ts(i) = ts(j) /\ i < j)
    IN  { [p \in 1..k |->
              collection[CHOOSE i \in S : Cardinality({j \in S : earlier(j, i)}) = p - 1]] :
          S \in {T \in SUBSET (1..n) :
                   /\ Cardinality(T) = k
                   /\ \A i \in T, j \in (1..n) \ T : ts(i) <= ts(j)} }

\* variant: delete_many({})
delete_documents_all(collection, documents) == <<>>

\* MongoDBHandler.delete_documents: delete_many({'_id': {'$in': ids}})
delete_documents(collection, documents) ==
    LET ids == {documents[i]._id : i \in 1..Len(documents)}
    IN  SelectSeq(collection, LAMBDA d : d._id \notin ids)

\* an item of a document under a fixed field name, written as one symbol
Item(name, value) == [k |-> <<name>>, v |-> value]

\* a trade as find() returns it
TradeDocument(d) ==
    Dict(<<Item("_id", Scalar(d._id)),
           Item("exchange", Dict(<<Item("rate", Scalar(d.doc.exchange.rate)),
                                   Item("from", Scalar(d.doc.exchange.from)),
                                   Item("to", Scalar(d.doc.exchange.to))>>)),
           Item("price", Dict(<<Item("USD", Scalar(d.doc.price.USD)),
                                Item("EUR", Scalar(d.doc.price.EUR))>>)),
           Item("rentability", Scalar(d.doc.rentability)),
           Item("timestamp", Scalar(d.doc.timestamp))>>)

\* a wallet as find() returns it
WalletDocument(d) ==
    LET coins == d.doc.data.stable_coins
        value == d.doc.data.value
        chain(c) == Dict(<<Item("EUR", Scalar(value.by_chain[c].EUR)),
                           Item("USD", Scalar(value.by_chain[c].USD)),
                           Item("total", Scalar(value.by_chain[c].total))>>)
    IN  Dict(<<Item("_id", Scalar(d._id)),
               Item("data",
                    Dict(<<Item("stable_coins",
                                Dict([i \in 1..Len(coins) |->
                                        [k |-> coins[i].key, v |-> Scalar(coins[i].val)]])),
                           Item("value",
                                Dict(<<Item("by_chain",
                                            Dict(<<[k |-> Str137, v |-> chain(Str137)],
                                                   [k |-> StrSolana,
                                                    v |-> chain(StrSolana)]>>)),
                                       Item("total", Scalar(value.total))>>))>>)),
               Item("timestamp", Scalar(d.doc.timestamp))>>)

\* the rows that export_to_csv_in_memory writes for the documents: one flat
\* mapping per document, in the order of the documents (a cell is found under
\* its column whatever the order of the header)
TradeRows(data) ==
    [i \in 1..Len(data) |-> CSVExporter_flatten_json(TradeDocument(data[i]))]

WalletRows(data) ==
    [i \in 1..Len(data) |-> CSVExporter_flatten_json(WalletDocument(data[i]))]

\* ZipCompressor.export_to_zip_in_memory of the two files
export_to_zip_in_memory(trade_csv, wallet_csv) ==
    [trade_csv |-> trade_csv, wallet_csv |-> wallet_csv]

\* MongoDBHandler.store_file
store_file(d, zip_file) == [d EXCEPT !.file_storage = Append(@, zip_file)]

\* the exporter process starts: export_data counts the trades
ExportStart ==
    /\ m.pc = "idle"
    /\ m.runs < MaxExports
    /\ m' = [m EXCEPT !.pc = IF Len(db.trades) > export_limit
                             THEN "read_trades" ELSE "idle",
                      !.trade_data = <<>>, !.wallet_data = <<>>, !.runs = @ + 1]
    /\ UNCHANGED <<db, reqs, disk, zips, buffer, clock, nextId, cs, env>>

\* trade_data = read_data('trades', export_limit)
ExportReadTrades ==
    /\ m.pc = "read_trades"
    /\ \E trade_data \in read_data(db.trades, export_limit) :
          m' = [m EXCEPT !.pc = "read_wallets", !.trade_data = trade_data]
    /\ UNCHANGED <<db, reqs, disk, zips, buffer, clock, nextId, cs, env>>

\* wallet_data = read_data('wallets', export_limit)
ExportReadWallets ==
    /\ m.pc = "read_wallets"
    /\ \E wallet_data \in read_data(db.wallets, export_limit) :
          m' = [m EXCEPT !.pc = "store_file", !.wallet_data = wallet_data]
    /\ UNCHANGED <<db, reqs, disk, zips, buffer, clock, nextId, cs, env>>

\* the two files, the zip and store_file
ExportStoreFile ==
    /\ m.pc = "store_file"
    /\ db' = store_file(db, export_to_zip_in_memory(TradeRows(m.trade_data),
                                                    WalletRows(m.wallet_data)))
    /\ m' = [m EXCEPT !.pc = "delete_trades"]
    /\ UNCHANGED <<reqs, disk, zips, buffer, clock, nextId, cs, env>>

\* delete_documents('trades', trade_data)
ExportDeleteTrades ==
    /\ m.pc = "delete_trades"
    /\ db' = [db EXCEPT !.trades = delete_documents(@, m.trade_data)]
    /\ m' = [m EXCEPT !.pc = "delete_wallets"]
    /\ UNCHANGED <<reqs, disk, zips, buffer, clock, nextId, cs, env>>

\* delete_documents('wallets', wallet_data); the process ends
ExportDeleteWallets ==
    /\ m.pc = "delete_wallets"
    /\ db' = [db EXCEPT !.wallets = delete_documents(@, m.wallet_data)]
    /\ m' = [m EXCEPT !.pc = "idle"]
    /\ UNCHANGED <<reqs, disk, zips, buffer, clock, nextId, cs, env>>

\* the exporter process dies between two operations on the database
ExportCrash ==
    /\ m.pc # "idle"
    /\ m.crashes < MaxCrashes
    /\ m' = [m EXCEPT !.pc = "idle", !.trade_data = <<>>, !.wallet_data = <<>>,
                      !.crashes = @ + 1]
    /\ UNCHANGED <<db, reqs, disk, zips, buffer, clock, nextId, cs, env>>

\* the exporter and the handler of the Retriever take their steps in any
\* order; the server of app.run handles one request at a time
NextExport ==
    \/ /\ Posted(reqs) < MaxExportPosted
       /\ \A rid \in DOMAIN reqs : reqs[rid].pc = "done"
       /\ \E datas \in ExportPayloads : RetrieverReceive(datas)
    \/ \E rid \in DOMAIN reqs : RetrieverInsertTrade(rid)
    \/ \E rid \in DOMAIN reqs : RetrieverInsertWallet(rid)
    \/ ExportStart
    \/ ExportReadTrades
    \/ ExportReadWallets
    \/ ExportStoreFile
    \/ ExportDeleteTrades
    \/ ExportDeleteWallets
    \/ ExportCrash

SpecExport == InitExport /\ [][NextExport]_vars

(* ------------------------- properties: compaction --------------------- *)
RowsData(rows) == [i \in 1..Len(rows) |-> RowData(rows[i])]

Occ(x, s) == Cardinality({i \in 1..Len(s) : s[i] = x})

SameBag(s, t) ==
    /\ Len(s) = Len(t)
    /\ \A x \in Range(s) \cup Range(t) : Occ(x, s) = Occ(x, t)

\* the rows of the files grp, as they were in directory d
RECURSIVE RowsOf(_, _)
RowsOf(d, grp) ==
    IF grp = <<>> THEN <<>> ELSE d[Head(grp)].rows \o RowsOf(d, Tail(grp))

\* the top frame has completed a merge step of function fn and not begun another
StepDone(fn) ==
    /\ cs # <<>> /\ Top.fn = fn /\ Top.merges > 0
    /\ Top.pc \in {"loop", "tail"}

CallDone == cs # <<>> /\ Top.pc = "done"

\* C5: a call without drain over k eligible files does floor(k / 10) merges of
\* exactly 10 files each and leaves exactly k mod 10 eligible files, untouched
\* (so none is merged or deleted when k < 10).
C5_NoDrainCounts ==
    (CallDone /\ Top.keep_going # "force") =>
        /\ Top.num = Group
        /\ Top.merges = Top.k0 \div Group
        /\ Cardinality(DOMAIN Top.start \ DOMAIN disk) = Group * Top.merges
        /\ Len(Top.csv_files) = Top.k0 % Group
        /\ EligibleOnDisk(Top.fn, Top.prefix) = Range(Top.csv_files)
        /\ \A f \in Range(Top.csv_files) : disk[f] = Top.start[f]

\* a finished call without drain that found 23 files and left 3
C5_Witness ==
    /\ CallDone /\ Top.keep_going # "force"
    /\ Top.k0 = 2 * Group + 3 /\ Top.merges = 2
    /\ Cardinality(EligibleOnDisk(Top.fn, Top.prefix)) = 3

\* C6: a drain call over k eligible files, 1 <= k < 10, does exactly one merge,
\* which consumes all k files; over k = 0 it does no merge and writes no file.
C6_DrainSmall ==
    (CallDone /\ Top.keep_going = "force" /\ Top.k0 < Group) =>
        IF Top.k0 >= 1
        THEN /\ Top.merges = 1
             /\ Len(Top.grp) = Top.k0
             /\ DOMAIN Top.start \cap DOMAIN disk = {}
             /\ EligibleOnDisk(Top.fn, Top.prefix) = {}
        ELSE /\ Top.merges = 0
             /\ disk = Top.before

\* a finished drain call that found between 1 and 9 files
C6_Witness ==
    /\ CallDone /\ Top.keep_going = "force"
    /\ Top.k0 >= 1 /\ Top.k0 < Group /\ Top.merges = 1

\* C7: after a drain call over k >= 1 eligible files no eligible file is left.
C7_DrainLeavesNone ==
    (CallDone /\ Top.keep_going = "force" /\ Top.k0 >= 1) =>
        EligibleOnDisk(Top.fn, Top.prefix) = {}

\* C8: compact_csv_files never opens for writing a combined file that is
\* already in the directory.
C8_FreshCombinedName ==
    (cs # <<>> /\ Top.fn = "compact" /\ Top.pc = "open") => Top.out \notin DOMAIN disk

IsPrefix(s, t) == Len(s) <= Len(t) /\ SubSeq(t, 1, Len(s)) = s

\* C9: a step of very_compact_csv_files never truncates or replaces an
\* archive or a '_compact.csv' file that is in the directory: an archive keeps
\* every entry it holds, and no existing merged file is opened for writing.
C9_NoOverwrite ==
    [][ /\ \A z \in DOMAIN zips : z \in DOMAIN zips' /\ IsPrefix(zips[z], zips'[z])
        /\ (cs # <<>> /\ Top.fn = "very" /\ Top.pc = "open") => Top.out \notin DOMAIN disk
      ]_vars

\* C10: when an archival merge step is complete, the consumed combined files
\* and the plaintext merged file are gone from the directory and the target
\* archive has an entry, named as the merged file, with every row of the
\* consumed files.
C10_ArchivedAndRemoved ==
    StepDone("very") =>
        /\ Range(Top.grp) \cap DOMAIN disk = {}
        /\ Top.out \notin DOMAIN disk
        /\ Top.zip \in DOMAIN zips
        /\ LET e == zips[Top.zip][Len(zips[Top.zip])]
           IN  /\ e.arcname = Top.out
               /\ SameBag(RowsData(e.content.rows), RowsData(RowsOf(Top.before, Top.grp)))

\* a completed archival merge step that appended to an existing archive
C10_Witness ==
    /\ StepDone("very") /\ Top.pc = "loop"
    /\ Top.zip \in DOMAIN zips /\ Len(zips[Top.zip]) >= 2

\* C11: the archival merge steps run under one run id all put their merged
\* file into the same archive: no two archives carry the same run id.
C11_SingleArchive ==
    \A z1, z2 \in DOMAIN zips : z1.run = z2.run => z1 = z2

\* the records in the rows of the files of a kind in directory d
RecordsOfKind(d, kind) ==
    UNION {Range(RecordsIn(d[f])) : f \in {g \in DOMAIN d : g.kind = kind}}

\* the records in the entries of the archives z
RecordsArchived(z) ==
    UNION {UNION {Range(RecordsIn(z[a][i].content)) : i \in 1..Len(z[a])} :
             a \in DOMAIN z}

\* the number of rows of the files of a kind, resp. of the entries of the archives
RECURSIVE RowCount(_, _)
RowCount(d, F) ==
    IF F = {} THEN 0
    ELSE LET f == CHOOSE g \in F : TRUE
         IN  Len(d[f].rows) + RowCount(d, F \ {f})
RECURSIVE EntryRowCount(_, _)
EntryRowCount(z, E) ==
    IF E = {} THEN 0
    ELSE LET e == CHOOSE g \in E : TRUE
         IN  Len(z[e[1]][e[2]].content.rows) + EntryRowCount(z, E \ {e})
Entries(z) == UNION {{<<a, i>> : i \in 1..Len(z[a])} : a \in DOMAIN z}

\* the inputs of every running call are of its stage, and a record is in one
\* stage (1 pending: an export file, 2 combined, 3 merged for the archive or
\* archived), in one row of it
StagesApart ==
    LET pending  == RecordsOfKind(disk, "export")
        combined == RecordsOfKind(disk, "combined")
        merged   == RecordsOfKind(disk, "compact")
        archived == RecordsArchived(zips)
    IN  /\ \A i \in 1..Len(cs) : \A f \in Range(cs[i].csv_files) \cup Range(cs[i].grp) :
              f.kind = (IF cs[i].fn = "compact" THEN "export" ELSE "combined")
        /\ pending \cap combined = {}
        /\ (pending \cup combined) \cap (merged \cup archived) = {}
        /\ RowCount(disk, {f \in DOMAIN disk : f.kind = "export"}) = Cardinality(pending)
        /\ RowCount(disk, {f \in DOMAIN disk : f.kind = "combined"}) = Cardinality(combined)
        /\ EntryRowCount(zips, Entries(zips)) = Cardinality(archived)

\* a step deletes a file of the stage of the running call (or the call's own
\* merged file, once archived), and moves no record to an earlier stage or
\* out of the files
StagesForward ==
    LET combined == RecordsOfKind(disk, "combined")
        last     == RecordsOfKind(disk, "compact") \cup RecordsArchived(zips)
        pending1 == RecordsOfKind(disk', "export")
        combined1 == RecordsOfKind(disk', "combined")
        last1    == RecordsOfKind(disk', "compact") \cup RecordsArchived(zips')
    IN  /\ \A f \in DOMAIN disk \ DOMAIN disk' :
              /\ cs # <<>>
              /\ Top.fn = "compact" => f.kind = "export"
              /\ Top.fn = "very" => f.kind = "combined" \/ (f = Top.out /\ Top.pc = "remove")
        /\ RecordsOfKind(disk, "export") \subseteq pending1 \cup combined1 \cup last1
        /\ combined \subseteq combined1 \cup last1
        /\ last \subseteq last1
        /\ (combined \cup last) \cap pending1 = {}
        /\ last \cap combined1 = {}

\* C26: stages never overlap or go backwards: compact_csv_files takes and
\* deletes only export files, very_compact_csv_files only combined files; over
\* every sequence of cycles a record is in one stage at a time, once, moves
\* only from pending to combined to archived, and a '_compact' file is never
\* an input.
C26_Stages ==
    []StagesApart /\ [][StagesForward]_vars

\* a cycle of main has archived a record that an export file of an earlier
\* run held and a record that it has exported itself
C26_Witness ==
    /\ m.pc = "archiving" /\ cs # <<>> /\ Top.fn = "very" /\ Top.pc = "loop"
    /\ Top.merges = 1
    /\ 1 \in RecordsArchived(zips)
    /\ \E r \in RecordsArchived(zips) : r >= FirstId
\* C28: the entry names inside an archive are unique: no archive holds two
\* entries of the same name.
C28_UniqueEntryNames ==
    \A z \in DOMAIN zips : \A i, j \in 1..Len(zips[z]) :
        zips[z][i].arcname = zips[z][j].arcname => i = j
\* the records in the files that a later cycle takes as input, or in an archive
Kept(d, z) ==
    RecordsOfKind(d, "export") \cup RecordsOfKind(d, "combined")
    \cup RecordsArchived(z)

\* C27: a crash during a compaction or archival merge loses no row: when the
\* process dies inside a call, every record of every file the call found is,
\* after the crash, in an export or combined file or in an archive.
C27_CrashLosesNoRow ==
    [][(cs # <<>> /\ cs' = <<>> /\ env'.crashes > env.crashes) =>
          \A i \in 1..Len(cs) : \A f \in DOMAIN cs[i].start :
              Range(RecordsIn(cs[i].start[f])) \subseteq Kept(disk', zips')]_vars

(* ---------------------------- properties: main ------------------------ *)
\* C1: when a cycle of main has run to its end without a crash, with
\* L = len(B ++ F) and T the threshold, it has written floor(L / T) trades
\* export files under distinct names, the i-th holding records
\* [i*T, (i+1)*T) of B ++ F in order, and the persisted trades buffer is the
\* last L mod T records of B ++ F (all of B ++ F, and no file, when L < T).
C1_TradeExport ==
    m.pc = "sleep" =>
        LET all == m.loaded.trades
            L == Len(all)
            T == max_records_init
        IN  /\ Len(m.written) = L \div T
            /\ \A i \in 1..Len(m.written) :
                   RecordsIn(m.written[i].file) = SubSeq(all, (i - 1) * T + 1, i * T)
            /\ \A i, j \in 1..Len(m.written) :
                   i # j => m.written[i].name # m.written[j].name
            /\ "trades" \in DOMAIN buffer
            /\ buffer["trades"] = SubSeq(all, L - (L % T) + 1, L)
            /\ L < T => (m.written = <<>> /\ buffer["trades"] = all)

\* a finished cycle that wrote two export files and kept one record
C1_Witness ==
    /\ m.pc = "sleep"
    /\ Len(m.written) = 2
    /\ "trades" \in DOMAIN buffer /\ Len(buffer["trades"]) = 1

\* record r is in the persisted buffers, in a file of the directory or in an archive
Present(r) ==
    \/ \E s \in DOMAIN buffer : r \in Range(buffer[s])
    \/ \E f \in DOMAIN disk : r \in Range(RecordsIn(disk[f]))
    \/ \E z \in DOMAIN zips : \E i \in 1..Len(zips[z]) :
           r \in Range(RecordsIn(zips[z][i].content))

\* C2: after a crash between writing a trades export file and persisting the
\* shrunk buffer, a restart and a further cycle, every record the crashed
\* cycle had loaded from the buffer or fetched is in a file or in the buffer.
C2_AtLeastOnce ==
    (env.crashAt = "tsave" /\ m.pc = "sleep") =>
        \A r \in Range(env.crashLoaded) : Present(r)

ExportFiles == {f \in DOMAIN disk : f.kind = "export"}

\* the records two different export files of the directory both hold (every
\* record has the leaf "a", so a row's cell "a" tells whose row it is)
Duplicated ==
    LET slots == UNION {{<<f, i>> : i \in 1..Len(disk[f].rows)} : f \in ExportFiles}
        ids == {disk[s[1]].rows[s[2]]["a"] : s \in slots}
    IN  IF Cardinality(slots) = Cardinality(ids) THEN {}
        ELSE {r \in ids :
                Cardinality({f \in ExportFiles : r \in Range(RecordsIn(disk[f]))}) >= 2}

\* C3: no record is in two export files.
C3_NoDuplicate == Duplicated = {}

\* C3 (amended): a record is in two export files only if a cycle exported it
\* and crashed while the persisted buffer still held it.
C3_DuplicateOnlyAfterCrash == Duplicated \subseteq env.redo

\* after a crash and a further cycle a record is in two export files
C3_Witness ==
    /\ env.crashAt = "tsave" /\ m.pc = "sleep"
    /\ Duplicated # {}

\* C12: every cycle of main runs to completion.  Stated on the export loops:
\* each pass of the wallets loop and of the trades loop that writes an export
\* file leaves strictly fewer records to export than it found, so that the
\* loop ends after finitely many passes.
C12_ExportLoopsProgress ==
    [][/\ (m.pc = "wloop" /\ m'.pc = "wsave") =>
            Len(m'.wallet_data) < Len(m.wallet_data)
       /\ (m.pc = "tloop" /\ m'.pc = "tsave") =>
            Len(m'.trade_data) < Len(m.trade_data)]_vars

\* the wallets export files the running cycle has written
WalletFiles ==
    {f \in DOMAIN disk : f.kind = "export" /\ f.prefix = "wallets" /\ f.run = m.date_id}

\* C13: the wallets stream uses the same constant threshold as the trades
\* stream: during and right after the wallets loop every wallets export file
\* of the cycle holds exactly max_records_init records, and a cycle that
\* loaded fewer wallets records than that writes no wallets file and
\* persists the loaded sequence unmodified.
C13_WalletThreshold ==
    m.pc \in {"wloop", "wsave", "wfinal", "tloop"} =>
        /\ \A f \in WalletFiles : Len(disk[f].rows) = max_records_init
        /\ Len(m.loaded.wallets) < max_records_init => WalletFiles = {}
        /\ (m.pc = "tloop" /\ Len(m.loaded.wallets) < max_records_init) =>
               load_data("wallets") = m.loaded.wallets

\* C14: replacing a buffer is atomic: at every instant, also after a crash
\* in the middle of save_data, the file of a stream holds a complete sequence
\* (the previous or the new one), so that the next load succeeds.
C14_AtomicSave ==
    \A s \in DOMAIN buffer : buffer[s] # Torn

\* the sequence main hands to save_data for the stream
InMemory(stream) == IF stream = "trades" THEN m.trade_data ELSE m.wallet_data

\* C15: loading a stream that has no stored state gives the empty sequence
\* without an error, and loading after a replace gives exactly the sequence
\* last written: a step that alters the buffer file of a stream leaves a
\* file from which load_data returns the sequence handed to save_data.
C15_LoadReturnsLastWritten ==
    [][/\ \A s \in Prefixes : s \notin DOMAIN buffer => load_data(s) = <<>>
       /\ \A s \in Saving :
            (s \in DOMAIN buffer' /\ (s \notin DOMAIN buffer \/ buffer'[s] # buffer[s]))
               => (Readable(s)' /\ load_data(s)' = InMemory(s))]_vars

(* ----------------------- properties: normalization -------------------- *)
\* C16: convert(amount, from, to) returns amount when from = to; otherwise
\* amount * rates[to] when from is "EUR"; otherwise amount / rates[from] when
\* to is "EUR"; otherwise amount, whatever the table holds or lacks.
C16_Convert ==
    m.pc = "convert" =>
        LET a == m.amount
            f == m.from_currency
            t == m.to_currency
            fp == m.fiat_prices
        IN  /\ f = t => m.result = Ok(a)
            /\ (f # t /\ f = "EUR" /\ t \in DOMAIN fp) =>
                   m.result = Ok(Mul(a, fp[t]))
            /\ (f # t /\ f # "EUR" /\ t = "EUR" /\ f \in DOMAIN fp /\ fp[f] # 0) =>
                   m.result = Ok(Div(a, fp[f]))
            /\ (f # t /\ f # "EUR" /\ t # "EUR") => m.result = Ok(a)

\* a conversion from the reference currency that changed the amount
C16_Witness ==
    /\ m.pc = "convert"
    /\ m.from_currency = "EUR" /\ m.to_currency = "USD"
    /\ "USD" \in DOMAIN m.fiat_prices /\ m.fiat_prices["USD"] = 96
    /\ m.amount # 0 /\ m.result = Ok(Mul(m.amount, 96)) /\ m.result.val # m.amount

\* the rate the round trip of the last call used
RoundTripRate == m.fiat_prices[m.from_currency]

SafeAmount == Pow2(FloatBits) * (Grid \div 4)

PairRule(fiat_prices, rate, from_currency, to_currency) ==
    LET baseline == Mul(Hundred, rate)
    IN  IF _is_relevant_pair(from_currency, to_currency)
        THEN LET market == convert(fiat_prices, Hundred, from_currency, to_currency)
             IN  convert(fiat_prices, Sub(baseline, market.val), to_currency, "USD")
        ELSE IF from_currency = "EUR" /\ to_currency = "EUR"
        THEN convert(fiat_prices, Sub(baseline, Hundred), "EUR", "USD")
        ELSE Ok(Sub(baseline, Hundred))

\* C18: the rentability stored in a canonical record is the pair rule's value
\* (rounded to the grid): for EUR->USD and USD->EUR the correlation converted
\* from the target currency into USD, for EUR->EUR the default gain converted
\* into USD, for every other pair the default gain.
C18_PairRule ==
    (/\ m.pc \in {"format_trade_document", "receive_json"}
     /\ "USD" \in DOMAIN m.fiat_prices /\ m.fiat_prices["USD"] # 0) =>
        /\ m.result.err = "none"
        /\ m.result.val = Round6(PairRule(m.fiat_prices, m.rate,
                                          m.from_currency, m.to_currency).val)

\* a figure or its rounding to the 6-decimal grid
UpTo6(x) == {x, Round6(x)}

\* the sum of the amounts of the keys of a chain with a 3-character suffix
RECURSIVE SumOver(_, _)
SumOver(wallet, I) ==
    IF I = {} THEN 0
    ELSE LET i == CHOOSE j \in I : TRUE
         IN  wallet[i].val + SumOver(wallet, I \ {i})
ChainSum(wallet, chain, suffix) ==
    SumOver(wallet, {i \in 1..Len(wallet) :
                        /\ FirstSegment(wallet[i].key) = chain
                        /\ Last3(wallet[i].key) = suffix})

\* the valuation the normalization at hand gives to a wallet mapping
ValueOf(wallet) ==
    IF m.pc = "process_wallet_data"
    THEN wallet_value(m.fiat_prices, wallet).val
    ELSE Server_wallet_value(wallet, ServerPrice(m.fiat_prices))

\* C19: in the valuation of a wallet, for each of the chains "137" and
\* "solana", EUR and USD are the sums of the amounts whose key starts with the
\* chain's segment and ends in "EUR" resp. "USD", the chain total is
\* USD + convert(EUR, "EUR", "USD"), the grand total is the sum of the chain
\* totals (each figure up to its rounding to 6 decimals); an empty wallet has
\* all-zero totals, and one more entry of another chain or another suffix
\* changes nothing in the valuation.
C19_WalletValuation ==
    (/\ m.pc \in {"process_wallet_data", "receive_json.wallet"}
     /\ m.result.err = "none") =>
        LET wallet == m.result.val.data.stable_coins
            value  == m.result.val.data.value
        IN  /\ \A chain \in {Str137, StrSolana} :
                 LET by == value.by_chain[chain]
                 IN  /\ by.EUR \in UpTo6(ChainSum(wallet, chain, StrEUR))
                     /\ by.USD \in UpTo6(ChainSum(wallet, chain, StrUSD))
                     /\ by.total \in
                          UpTo6(Add(by.USD, convert(m.fiat_prices, by.EUR,
                                                    "EUR", "USD").val))
            /\ value.total \in UpTo6(Add(value.by_chain[Str137].total,
                                          value.by_chain[StrSolana].total))
            /\ wallet = << >> =>
                 /\ value.total = 0
                 /\ \A chain \in {Str137, StrSolana} :
                      value.by_chain[chain] = [EUR |-> 0, USD |-> 0, total |-> 0]
            /\ \A entry \in WalletEntries :
                 LET key == _generate_wallet_key(entry)
                 IN  (/\ \/ FirstSegment(key) \notin {Str137, StrSolana}
                         \/ Last3(key) \notin {StrEUR, StrUSD}
                      /\ \A i \in 1..Len(wallet) : wallet[i].key # key) =>
                         ValueOf(Append(wallet, [key |-> key,
                                                 val |-> Round6(entry.amount)]))
                           = value

\* the Retriever has valued a wallet of 10 EUR and 5 USD (rounded) on chain
\* "137" at the rate 9/8: total 16.25
C19_Witness ==
    /\ m.pc = "process_wallet_data" /\ m.result.err = "none"
    /\ Len(m.result.val.data.stable_coins) = 2
    /\ m.result.val.data.value.by_chain[Str137] =
         [EUR |-> 10 * Scale, USD |-> 5 * Scale,
          total |-> 16 * Scale + Scale \div 4]
    /\ m.result.val.data.value.total = 16 * Scale + Scale \div 4

\* a wallet's WalletKey-to-amount mapping, whatever the order of its entries
AsMapping(wallet) == {<<wallet[i].key, wallet[i].val>> : i \in 1..Len(wallet)}

\* two data payloads are equal: the same mapping and the same valuation
PayloadEq(data1, data2) ==
    /\ AsMapping(data1.stable_coins) = AsMapping(data2.stable_coins)
    /\ data1.value = data2.value

\* the document the normalization at hand makes of another wallet and time
DocOf(wallet_data, timestamp) ==
    IF m.pc = "process_wallet_data"
    THEN process_wallet_data(m.fiat_prices, wallet_data, timestamp)
    ELSE ServerWalletDoc(m.fiat_prices, wallet_data, timestamp)

\* C20: the wallet id is a function of the data payload only: a normalization
\* of any wallet at any time whose data payload equals the one at hand gives
\* the same id.
C20_IdOfPayload ==
    (/\ m.pc \in {"process_wallet_data", "receive_json.wallet"}
     /\ m.result.err = "none") =>
        \A wallet_data \in WalletLists, timestamp \in Timestamps :
            LET other == DocOf(wallet_data, timestamp)
            IN  (/\ other.err = "none"
                 /\ PayloadEq(other.val.data, m.result.val.data)) =>
                    other.val.id = m.result.val.id


\* C32: the two converters agree: convert_market_rate of the Server, with the
\* price table built from fiatPrices that hold the USD rate, returns what
\* CurrencyConverter.convert of the Retriever returns for the same amount and pair.
C32_ConvertersAgree ==
    (m.pc = "convert_market_rate" /\ "USD" \in DOMAIN m.fiat_prices) =>
        m.result = convert(m.fiat_prices, m.amount, m.from_currency, m.to_currency)

(* ------------------ properties: flattening and export ----------------- *)
\* the paths from the root of a nested value to its leaves (the values that
\* are no containers): the keys and the list indices passed on the way
RECURSIVE LeafPaths(_)
LeafPaths(x) ==
    IF x.t = "dict"
    THEN UNION {{<<x.items[i].k>> \o p : p \in LeafPaths(x.items[i].v)} :
                  i \in 1..Len(x.items)}
    ELSE IF x.t = "list"
    THEN UNION {{<<str_index(i - 1)>> \o p : p \in LeafPaths(x.items[i])} :
                  i \in 1..Len(x.items)}
    ELSE {<<>>}

\* the segments of a path joined with '.'
RECURSIVE Join(_)
Join(p) ==
    IF p = <<>> THEN <<>>
    ELSE IF Len(p) = 1 THEN p[1]
    ELSE p[1] \o <<".">> \o Join(Tail(p))

\* all values of the mapping are scalars
IsFlat(x) == \A i \in 1..Len(x.items) : x.items[i].v.t = "scalar"

FlattenDone == m.pc \in {"CSVConverter.flatten_json", "CSVExporter.flatten_json"}

\* C24: the keys of flatten_json(record) are exactly the leaf paths of the
\* record, joined with '.' and without a trailing separator, and a mapping
\* that is already flat is returned as it is.
C24_LeafPaths ==
    FlattenDone =>
        /\ Keys(m.result) = {Join(p) : p \in LeafPaths(m.nested_json)}
        /\ IsFlat(m.nested_json) =>
              m.result = [i \in 1..Len(m.nested_json.items) |->
                            [key |-> m.nested_json.items[i].k,
                             val |-> m.nested_json.items[i].v.v]]

\* {"b": [1, 2], "a": 1} is flattened to the keys b.0, b.1 and a
C24_Witness ==
    /\ m.pc = "CSVConverter.flatten_json"
    /\ m.nested_json = Dict(<<[k |-> <<"b">>, v |-> List(<<Scalar(1), Scalar(2)>>)]>>)
    /\ m.result = <<[key |-> <<"b", ".", "0">>, val |-> 1],
                    [key |-> <<"b", ".", "1">>, val |-> 2]>>

\* C29: flattening loses no leaf: the flat mapping has as many entries as the
\* record has leaves.
C29_NoLeafLost ==
    FlattenDone => Len(m.result) = Cardinality(LeafPaths(m.nested_json))

\* the character codes of the characters of the keys
Ord(c) ==
    CASE c = "." -> 46
      [] c = "a" -> 97
      [] c = "b" -> 98
      [] OTHER -> 48 + (CHOOSE d \in 0..9 : DigitChars[d + 1] = c)

\* the strings of header are in increasing order
IsSorted(header) ==
    \A i, j \in 1..Len(header) :
        i < j => LexLess([x \in 1..Len(header[i]) |-> Ord(header[i][x])],
                         [x \in 1..Len(header[j]) |-> Ord(header[j][x])])

ExportDone == m.pc \in {"convert_csv", "export_to_csv_in_memory"}

\* the rows of the file are the records of the batch, one cell per column
RowsAligned ==
    /\ Len(m.result.rows) = Len(m.data)
    /\ \A i \in 1..Len(m.data) :
         LET flat == CSVConverter_flatten_json(m.data[i])
             row  == m.result.rows[i]
         IN  /\ Len(row) = Len(m.result.header)
             /\ \A j \in 1..Len(row) :
                  row[j] = IF m.result.header[j] \in Keys(flat)
                           THEN Get(flat, m.result.header[j]) ELSE Empty

\* C25: the header of an export file is the sorted union of the flattened
\* column names of the batch, there is one row per record in batch order, and
\* each row has one cell per header column, empty where the record lacks it.
C25_ExportFormat ==
    ExportDone =>
        /\ Range(m.result.header) =
             UNION {Keys(CSVConverter_flatten_json(m.data[i])) : i \in 1..Len(m.data)}
        /\ IsSorted(m.result.header)
        /\ RowsAligned


(* -------------------------- properties: store -------------------------- *)
\* C21: identical wallet states are never stored twice: no two documents of
\* the wallets collection have the same key-to-amount mapping and the same
\* valuation, in whatever order the payloads listed the entries.
C21_NoWalletTwice ==
    \A j, k \in 1..Len(db.wallets) :
        PayloadEq(db.wallets[j].doc.data, db.wallets[k].doc.data) => j = k

\* the element lacks a field that the normalization reads
Malformed(element) == element.missing # "none"

\* the documents stored for request rid: the trades by the id of their
\* insertion, the wallets by the id of their insertion (Server) or by the
\* timestamp of the request's processor (Retriever)
TradesOf(rid) == {k \in 1..Len(db.trades) : db.trades[k]._id[1] = rid}
WalletsOf(rid) == {k \in 1..Len(db.wallets) : db.wallets[k].doc.timestamp = rid}

\* C22: malformed input mutates nothing: a request with an element that lacks
\* a required field is rejected, and no trade or wallet document of that
\* request is in the store, also none of the elements before the malformed one.
C22_MalformedMutatesNothing ==
    \A rid \in DOMAIN reqs :
        (/\ reqs[rid].method = "POST" /\ reqs[rid].pc = "done"
         /\ \E i \in 1..Len(reqs[rid].datas) : Malformed(reqs[rid].datas[i]))
        => /\ reqs[rid].status \notin {"200"}
           /\ TradesOf(rid) = {} /\ WalletsOf(rid) = {}

\* the pair names a currency other than the reference that the table lacks
MissingRate(element) ==
    \E c \in {element.from_currency, element.to_currency} \ {"EUR"} :
        c \notin DOMAIN element.fiat_prices

\* the rentability of the pair is computed with a rate that the table lacks
NeededRateMissing(element) ==
    /\ _is_relevant_pair(element.from_currency, element.to_currency)
    /\ "USD" \notin DOMAIN element.fiat_prices

\* nothing is stored for element i of request rid
NothingStoredFor(rid, i) ==
    /\ \A k \in 1..Len(db.trades) : db.trades[k]._id # <<rid, i>>
    /\ \A k \in 1..Len(db.wallets) :
         db.wallets[k].doc.timestamp = rid =>
            AsMapping(db.wallets[k].doc.data.stable_coins)
              # AsMapping(_process_entries(reqs[rid].datas[i].wallet))

ArchivedRows(d, csv) ==
    UNION {Range(d.file_storage[k][csv]) : k \in 1..Len(d.file_storage)}

\* the ids of the trades and of the wallets that the handlers have inserted
\* (a wallet whose id was in the collection is not inserted again)
InsertedTradeIds(rs) ==
    UNION {{<<rid, k>> :
              k \in {j \in 1..Len(rs[rid].datas) :
                       \/ rs[rid].status = "200"
                       \/ j < rs[rid].i
                       \/ (j = rs[rid].i /\ rs[rid].pc = "insert_wallet")}} :
           rid \in {q \in DOMAIN rs : rs[q].status \in {"", "200"}}}

InsertedWalletIds(rs) ==
    UNION {{rs[rid].processed_data[k].val.wallet.id :
              k \in {j \in 1..Len(rs[rid].datas) :
                       rs[rid].status = "200" \/ j < rs[rid].i}} :
           rid \in {q \in DOMAIN rs : rs[q].status \in {"", "200"}}}

\* the ids of the rows of the stored zips
ArchivedIds(d, csv) == {Get(row, <<"_id">>) : row \in ArchivedRows(d, csv)}

\* every inserted document is in its collection or is a row of a stored zip
NothingLost(d, rs) ==
    /\ InsertedTradeIds(rs) \subseteq
            {d.trades[k]._id : k \in 1..Len(d.trades)} \cup ArchivedIds(d, "trade_csv")
    /\ InsertedWalletIds(rs) \subseteq
            {d.wallets[k]._id : k \in 1..Len(d.wallets)} \cup ArchivedIds(d, "wallet_csv")

\* C31: the exporter deletes only what it archived: a step that removes
\* documents from 'trades' or 'wallets' removes exactly the documents the
\* exporter read, all of them rows of a zip stored before the step; documents
\* inserted since the read stay; and after every step, a crash of the exporter
\* included, every inserted document is in its collection or in a stored zip.
C31_DeletesOnlyArchived ==
    [][/\ \A t \in Range(db.trades) \ Range(db'.trades) :
             /\ t \in Range(m.trade_data)
             /\ CSVExporter_flatten_json(TradeDocument(t))
                    \in ArchivedRows(db, "trade_csv")
       /\ \A w \in Range(db.wallets) \ Range(db'.wallets) :
             /\ w \in Range(m.wallet_data)
             /\ CSVExporter_flatten_json(WalletDocument(w))
                    \in ArchivedRows(db, "wallet_csv")
       /\ (m.pc = "delete_trades" /\ m'.pc = "delete_wallets")
             => Range(db'.trades) \cap Range(m.trade_data) = {}
       /\ (m.pc = "delete_wallets" /\ m'.pc = "idle" /\ m'.crashes = m.crashes)
             => Range(db'.wallets) \cap Range(m.wallet_data) = {}
       /\ NothingLost(db', reqs')]_vars

\* an export has run to its end and stored a zip of export_limit trades, and a
\* trade and a wallet that are in no zip are still in their collections
C31_Witness ==
    /\ m.pc = "idle" /\ Len(m.trade_data) = export_limit /\ m.wallet_data # <<>>
    /\ Len(db.file_storage) = 1
    /\ Range(db.trades) \cap Range(m.trade_data) = {}
    /\ \E t \in Range(db.trades) :
          CSVExporter_flatten_json(TradeDocument(t)) \notin ArchivedRows(db, "trade_csv")
    /\ \E w \in Range(db.wallets) :
          CSVExporter_flatten_json(WalletDocument(w)) \notin ArchivedRows(db, "wallet_csv")

=============================================================================
